---- MODULE Spec2Model ----
(***************************************************************************)
(* Lighting-event synthesis of simple_auto_beatsage_script (src/main.py):  *)
(* Note, calculate_laser_speed and add_lighting_events as a state machine. *)
(*                                                                         *)
(* Times are exact rationals on a dyadic grid: a time or a gap is a whole  *)
(* number of ticks, TicksPerBeat ticks to the beat.  On that grid the      *)
(* program's float arithmetic (subtraction, comparison with 1 and 2,       *)
(* ceil, str/float round trip) is exact.                                   *)
(*                                                                         *)
(* The program counter pc names the source line the function is about to   *)
(* execute (or has just left through a continue).  Indices i and n are     *)
(* 0-based as in the source; At(s, k) reads s[k] of the source.            *)
(*                                                                         *)
(* Around it: create_light_map and the lighting step of get_map over the   *)
(* files of an extraction directory (BatchSpec, which runs the actions of  *)
(* add_lighting_events between the read and the write), and the script     *)
(* with process_files and the requests of get_map (ScriptSpec).            *)
(***************************************************************************)
EXTENDS Integers, Sequences, FiniteSets, TLC

\* ------------------------------------------------------------- bounds
MaxNotes == 3
MaxTime == 6
Res == 1
MaxNum == 8
MaxDenom == 4

TicksPerBeat == 2 ^ Res

\* last_time = None (line 168): a value no note time equals.
None == -1

NoteTypes == {0, 3}
CutDirections == {0, 8}
NoteSet == [time : 0..MaxTime, type : NoteTypes, cutDirection : CutDirections]

IsSorted(ns) == \A a, b \in 1..Len(ns) : a <= b => ns[a].time <= ns[b].time

\* The note lists of a level file: ordered by time, stacked notes allowed.
NoteLists == UNION {{ns \in [1..k -> NoteSet] : IsSorted(ns)} : k \in 0..MaxNotes}

\* ------------------------------------------------------------ helpers
At(s, k) == s[k + 1]

Ev(t, ty, v) == [time |-> t, type |-> ty, value |-> v]

\* An event list left in the document by an earlier run.
StaleEvents == {<<>>, <<Ev(0, 5, 1)>>}

\* math.ceil(a / b) for integers a and b, b # 0.
CeilDiv(a, b) == IF b > 0 THEN -((-a) \div b) ELSE -(a \div (-b))

CalcSpeedFloorOuter(num, den) == (((CeilDiv(2 * den, num) + 1) * (CeilDiv(2 * den, num) + 1))) \div 4

CalcSpeedFloorBoth(num, den) ==
    LET inner == IF num > 0 THEN ((2 * den) \div num) + 1 ELSE -((-(2 * den)) \div (-num)) + 1
    IN  (inner * inner) \div 4

\* calculate_laser_speed(padding) for padding = num / den, den > 0, num # 0:
\* math.ceil((math.ceil((2 / padding) + 1) ** 2) / 4).
CalcSpeed(num, den) ==
    LET inner == CeilDiv(2 * den, num) + 1
    IN  CeilDiv(inner * inner, 4)

\* calculate_laser_speed on a gap given in ticks.
calculate_laser_speed(padding) == CalcSpeed(padding, TicksPerBeat)

\* ------------------------------------------------ look-ahead (174-197)
RECURSIVE ScanFromPlusOne(_, _, _)
ScanFromPlusOne(ns, i, n) ==
    IF n >= Len(ns)
    THEN [next_time |-> At(ns, i).time + 1, same |-> FALSE]
    ELSE IF At(ns, n).time = At(ns, i).time
         THEN [ScanFromPlusOne(ns, i, n + 1) EXCEPT !.same = TRUE]
         ELSE [next_time |-> At(ns, n).time, same |-> FALSE]

\* The while loop of lines 180-197, entered with n already incremented:
\* next_time is next_note["_time"], same is double_lasers (and
\* added_ring_rotation, which the loop sets together with it).
RECURSIVE ScanFrom(_, _, _)
ScanFrom(ns, i, n) ==
    IF n >= Len(ns)
    THEN [next_time |-> At(ns, n - 1).time * 2, same |-> FALSE]
    ELSE IF At(ns, n).time = At(ns, i).time
         THEN [ScanFrom(ns, i, n + 1) EXCEPT !.same = TRUE]
         ELSE [next_time |-> At(ns, n).time, same |-> FALSE]

\* Note(note, next_note).padding (line 161); next_note is never None here.
NotePadding(note_time, next_time) == next_time - note_time

\* ------------------------------------------- classification (209-270)
BackLightValueSwapped(gap) == IF gap < TicksPerBeat THEN 2 ELSE 6

\* Line 214: 6 if note.padding < 1 else 2.
BackLightValue(gap) == IF gap < TicksPerBeat THEN 6 ELSE 2

\* Lines 211-220: the two back-light events of a bomb or an any-direction block.
BackLight(t, gap) == <<Ev(t, 0, BackLightValue(gap)), Ev(t, 4, 0)>>

PaceFiresAlways(gap, last, idx) == gap >= 0

PaceFiresMediumFromDenseOnly(gap, last, idx) ==
    IF gap >= 2 * TicksPerBeat THEN last < 2 * TicksPerBeat \/ idx < 1
    ELSE IF gap >= TicksPerBeat THEN last < TicksPerBeat \/ idx < 1
    ELSE last >= TicksPerBeat \/ idx < 1

\* The transition conditions of lines 224, 234 and 244.
PaceFires(gap, last, idx) ==
    IF gap >= 2 * TicksPerBeat THEN last < 2 * TicksPerBeat \/ idx < 1
    ELSE IF gap >= TicksPerBeat THEN last < TicksPerBeat \/ last >= 2 * TicksPerBeat \/ idx < 1
    ELSE last >= TicksPerBeat \/ idx < 1

\* Lines 230, 240, 250.
PacePrefix(gap) ==
    IF gap >= 2 * TicksPerBeat THEN "0" ELSE IF gap >= TicksPerBeat THEN "a" ELSE "b"

LightValueMediumAsSparse(gap) ==
    IF gap >= TicksPerBeat THEN 3 ELSE 6

\* Lines 232, 242, 252.
LightValue(gap) ==
    IF gap >= 2 * TicksPerBeat THEN 3 ELSE IF gap >= TicksPerBeat THEN 2 ELSE 6

IsBombOrOmni(nt) == nt.type = 3 \/ nt.cutDirection = 8

\* Line 221: the note leaves after its back-light events.
IsBomb(nt) == nt.type = 3

\* Line 270.
LaserColor(gap) == IF gap < TicksPerBeat THEN 7 ELSE 3

\* Lines 273 and 311: both lasers fire, and the single-side tail is left out.
BothLasers(double, gap) == double /\ gap >= 2 * TicksPerBeat

\* Lines 296 and 304: laser_side, given left_laser_next.
LaserSide(left) == IF left THEN 2 ELSE 3

\* Lines 299 and 307: the channel of the value-0 event.
OffType(left) == IF left THEN 3 ELSE 2

\* Line 314.
SpeedType(side) == IF side = 2 THEN 12 ELSE 13

\* Lines 274-293.
DoubleLaserEvents(t, gap) ==
    <<Ev(t, 3, LaserColor(gap)), Ev(t, 2, LaserColor(gap)),
      Ev(t, 12, calculate_laser_speed(gap)), Ev(t, 13, calculate_laser_speed(gap))>>

\* Lines 312-321.
SingleLaserTail(t, gap, side) ==
    <<Ev(t, SpeedType(side), calculate_laser_speed(gap)), Ev(t, side, LaserColor(gap))>>

\* ------------------------------------ the pace-change log (255, 345-350)
Digit(d) ==
    CASE d = 0 -> "0" [] d = 1 -> "1" [] d = 2 -> "2" [] d = 3 -> "3" [] d = 4 -> "4"
      [] d = 5 -> "5" [] d = 6 -> "6" [] d = 7 -> "7" [] d = 8 -> "8" [] d = 9 -> "9"

DigitValue(c) ==
    CASE c = "0" -> 0 [] c = "1" -> 1 [] c = "2" -> 2 [] c = "3" -> 3 [] c = "4" -> 4
      [] c = "5" -> 5 [] c = "6" -> 6 [] c = "7" -> 7 [] c = "8" -> 8 [] c = "9" -> 9

IsDigit(c) == c \in {"0", "1", "2", "3", "4", "5", "6", "7", "8", "9"}

RECURSIVE IntStr(_)
IntStr(k) == IF k < 10 THEN <<Digit(k)>> ELSE IntStr(k \div 10) \o <<Digit(k % 10)>>

\* The decimal digits of f / 10^width, width digits, trailing zeros dropped
\* (one digit is always kept): the fraction part of a float's str().
RECURSIVE FracStr(_, _)
FracStr(f, width) ==
    IF width <= 1 THEN <<Digit(f)>>
    ELSE IF f % 10 = 0 THEN FracStr(f \div 10, width - 1)
    ELSE FracStr(f \div 10, width - 1) \o <<Digit(f % 10)>>

\* str(time) of the float time (ticks / TicksPerBeat), as a character
\* sequence: "0.5", "3.0", "1.25".  TicksPerBeat = 2^Res divides 10^Res.
FormatTime(ticks) ==
    IntStr(ticks \div TicksPerBeat)
        \o <<".">>
        \o FracStr(((ticks % TicksPerBeat) * (10 ^ Res)) \div TicksPerBeat, Res)

\* Line 255: f"{pace_prefix}{note.raw['_time']}".
PaceEntry(prefix, ticks) == <<prefix>> \o FormatTime(ticks)

RECURSIVE DigitsValue(_)
DigitsValue(cs) ==
    IF cs = <<>> THEN 0 ELSE 10 * DigitsValue(SubSeq(cs, 1, Len(cs) - 1)) + DigitValue(cs[Len(cs)])

DotAt(cs) == IF \E k \in 1..Len(cs) : cs[k] = "."
             THEN CHOOSE k \in 1..Len(cs) : cs[k] = "." /\ \A m \in 1..(k - 1) : cs[m] # "."
             ELSE Len(cs) + 1

\* float(s) accepts s: digits, optionally a point and digits, one digit at least.
FloatOk(cs) ==
    LET d == DotAt(cs)
        ip == SubSeq(cs, 1, d - 1)
        fp == SubSeq(cs, d + 1, Len(cs))
    IN  /\ \A k \in 1..Len(ip) : IsDigit(ip[k])
        /\ \A k \in 1..Len(fp) : IsDigit(fp[k])
        /\ Len(ip) + Len(fp) >= 1

\* float(s), in ticks (exact on the dyadic grid).
ParseFloat(cs) ==
    LET d == DotAt(cs)
        ip == SubSeq(cs, 1, d - 1)
        fp == SubSeq(cs, d + 1, Len(cs))
    IN  DigitsValue(ip) * TicksPerBeat + (DigitsValue(fp) * TicksPerBeat) \div (10 ^ Len(fp))

\* math.ceil of a time in ticks, in whole beats.
CeilBeat(ticks) == CeilDiv(ticks, TicksPerBeat)

RingValueSwapped(prefix) == IF prefix = "a" THEN 7 ELSE IF prefix = "b" THEN 3 ELSE 0

\* Lines 328-338.
RingValue(prefix) == IF prefix = "a" THEN 3 ELSE IF prefix = "b" THEN 7 ELSE 0

SweepInclusive(cur, nxt, ring_value) ==
    IF nxt >= cur THEN [k \in 1..(nxt - cur + 1) |-> Ev((cur + k - 1) * TicksPerBeat, 1, ring_value)]
    ELSE <<>>

\* Lines 358-364: one event per whole beat from cur up to nxt, excluded.
Sweep(cur, nxt, ring_value) ==
    IF nxt > cur THEN [k \in 1..(nxt - cur) |-> Ev((cur + k - 1) * TicksPerBeat, 1, ring_value)]
    ELSE <<>>

\* Lines 328-364 for the entry at index idx of log: the events it appends.
RingEvents(log, idx) ==
    LET entry == At(log, idx)
        ring_value == RingValue(Head(entry))
    IN  IF Len(entry) < 1 THEN <<>>
        ELSE IF ring_value = 0 \/ idx = Len(log) - 1 THEN <<>>
        ELSE IF ~FloatOk(Tail(entry)) \/ ~FloatOk(Tail(At(log, idx + 1))) THEN <<>>
        ELSE LET original_timestamp == ParseFloat(Tail(entry))
                 current_timestamp == CeilBeat(original_timestamp)
                 next_timestamp == CeilBeat(ParseFloat(Tail(At(log, idx + 1))))
             IN  (IF current_timestamp * TicksPerBeat # original_timestamp
                  THEN <<Ev(original_timestamp, 1, ring_value)>> ELSE <<>>)
                 \o Sweep(current_timestamp, next_timestamp, ring_value)

VARIABLES
    notes,            \* beatmap["_notes"]
    events,           \* beatmap["_events"]
    pc,               \* the line add_lighting_events stands at
    i,                \* the loop index of lines 173 and 327
    last_padding,     \* line 167
    last_time,        \* line 168
    left_laser_next,  \* line 169
    pace_changes,     \* line 170
    double_lasers,    \* line 178, as the look-ahead left it
    padding,          \* note.padding of the Note built at line 203
    ev_mark,          \* history: Len(events) when the current iteration began
    call              \* the calls of the pure-function specification

\* ---------------------------------------------------------------- files
\* A path of the extraction directory: Path.stem and Path.suffix.
Name(stem, suffix) == [stem |-> stem, suffix |-> suffix]

InfoDat == Name("Info", ".dat")
LevelFiles == {Name("Easy", ".dat"), Name("Expert", ".dat")}
SongFile == Name("song", ".egg")

\* What zip_ref.extractall left in extract_dir (line 637).
Extracted == {InfoDat, SongFile} \cup LevelFiles

WithSuffixKept(f, suffix) == f

\* Path(filename).with_suffix(suffix) (line 393).
WithSuffix(f, suffix) == [f EXCEPT !.suffix = suffix]

Paths == Extracted \cup {WithSuffix(f, ".dat.tmp") : f \in Extracted}

\* A JSON document as create_light_map sees it: whether json.load accepts
\* the text, whether the keys "_version" and "_notes" are there, and the
\* note and event lists.
Doc(parses, has_version, has_notes, ns, es) ==
    [parses |-> parses, has_version |-> has_version, has_notes |-> has_notes,
     notes |-> ns, events |-> es]

NoDoc == Doc(FALSE, FALSE, FALSE, <<>>, <<>>)

\* A file: the document its text is (a prefix of), and how much of the text
\* is there: "full", "partial", "empty" (just created), "absent" (no file).
File(d, part) == [doc |-> d, part |-> part]

NoFile == File(NoDoc, "absent")

VARIABLES
    disk,             \* the files of extract_dir, by path
    orig,             \* history: disk when the lighting step began
    todo,             \* the paths extract_dir.glob('*.dat') has yet to yield
    filename,         \* the argument of create_light_map
    beatmap,          \* the document json.load returned (line 381)
    calls,            \* history: how often create_light_map got each path
    synth_calls,      \* history: the paths add_lighting_events was called for
    reported,         \* history: the paths whose failure line 652 printed
    returned,         \* history: what add_lighting_events returned, per call
    rewritten,        \* history: the paths line 398 has replaced
    pass              \* which run of the lighting step over extract_dir this is

batch_vars == <<disk, orig, todo, filename, beatmap, calls, synth_calls, reported,
                returned, rewritten, pass>>

\* No lighting step is under way.
BatchIdle ==
    /\ disk = [p \in Paths |-> NoFile]
    /\ orig = [p \in Paths |-> NoFile]
    /\ todo = {}
    /\ filename = InfoDat
    /\ beatmap = NoDoc
    /\ calls = [p \in Paths |-> 0]
    /\ synth_calls = {}
    /\ reported = {}
    /\ returned = {}
    /\ rewritten = {}
    /\ pass = 1

\* --------------------------------------------------------------- script
\* An exception in flight: its class and its message.
Exc(type, msg) == [type |-> type, msg |-> msg]

NoExc == Exc("none", <<>>)

VARIABLES
    left,             \* how many of audio_files the loop of line 902 has yet to take
    attempt,          \* line 586
    heartbeats,       \* history: what each heartbeat request of this file came to
    downloads,        \* history: the download requests of this file (line 609)
    error,            \* the exception that is propagating, NoExc when none is
    failures,         \* history: the exceptions get_map has raised, in order
    stdout,           \* what the script printed to stdout (results and warnings)
    stderr,           \* what the script printed to stderr
    exit_code         \* the exit status, None while the script runs

script_vars == <<left, attempt, heartbeats, downloads, error, failures, stdout, stderr,
                 exit_code>>

\* The script is not running.
ScriptIdle ==
    /\ left = 0
    /\ attempt = 0
    /\ heartbeats = <<>>
    /\ downloads = 0
    /\ error = NoExc
    /\ failures = <<>>
    /\ stdout = <<>>
    /\ stderr = <<>>
    /\ exit_code = None

\* The command line options of the script (lines 911-918, 831-889).
VARIABLES
    args,             \* the option strings of argparse's namespace, as character sequences
    mapped            \* the canonical names of lines 885-889, NoMapped before

args_vars == <<args, mapped>>

NoArgs == [difficulties |-> <<>>, modes |-> <<>>, events |-> <<>>,
           environment |-> <<>>, model_tag |-> <<>>]

NoMapped == [diffs |-> <<>>, modes |-> <<>>, events |-> <<>>, env |-> "", tag |-> ""]

\* No command line is being handled.
ArgsIdle == args = NoArgs /\ mapped = NoMapped

outer == <<batch_vars, script_vars, args_vars>>

OuterIdle == BatchIdle /\ ScriptIdle /\ ArgsIdle

vars == <<notes, events, pc, i, last_padding, last_time, left_laser_next,
          pace_changes, double_lasers, padding, ev_mark, call, outer>>

NoCall == [a |-> <<1, 1>>, b |-> <<1, 1>>, ra |-> 0, rb |-> 0, at |-> "none"]

Init ==
    /\ notes \in NoteLists
    /\ events \in StaleEvents
    /\ pc = "L167"
    /\ i = 0
    /\ last_padding = 0
    /\ last_time = None
    /\ left_laser_next = TRUE
    /\ pace_changes = <<>>
    /\ double_lasers = FALSE
    /\ padding = 0
    /\ ev_mark = 0
    /\ call = NoCall
    /\ OuterIdle

BeginKeepsEvents ==
    /\ pc = "L167"
    /\ last_padding' = 0
    /\ last_time' = None
    /\ left_laser_next' = TRUE
    /\ pace_changes' = <<>>
    /\ i' = 0
    /\ pc' = "L173"
    /\ UNCHANGED <<notes, events, double_lasers, padding, ev_mark, call, outer>>

BeginKeepsLaserSide ==
    /\ pc = "L167"
    /\ last_padding' = 0
    /\ last_time' = None
    /\ pace_changes' = <<>>
    /\ events' = <<>>
    /\ i' = 0
    /\ pc' = "L173"
    /\ UNCHANGED <<notes, left_laser_next, double_lasers, padding, ev_mark, call, outer>>

\* Lines 167-171: the carried state is initialised, the old events dropped.
Begin ==
    /\ pc = "L167"
    /\ last_padding' = 0
    /\ last_time' = None
    /\ left_laser_next' = TRUE
    /\ pace_changes' = <<>>
    /\ events' = <<>>
    /\ i' = 0
    /\ pc' = "L173"
    /\ UNCHANGED <<notes, double_lasers, padding, ev_mark, call, outer>>

\* Lines 173-203 for one index: the look-ahead with its ring-rotation
\* trigger, the stacked-note skip, the Note construction.
Scan ==
    /\ pc = "L173"
    /\ i < Len(notes)
    /\ LET t == At(notes, i).time
           look == ScanFrom(notes, i, i + 1)
       IN  /\ ev_mark' = Len(events)
           /\ events' = IF look.same THEN Append(events, Ev(t, 8, 0)) ELSE events
           /\ double_lasers' = look.same
           /\ IF last_time = t
              THEN /\ pc' = "L201"
                   /\ UNCHANGED padding
              ELSE /\ pc' = "L209"
                   /\ padding' = NotePadding(t, look.next_time)
    /\ UNCHANGED <<notes, i, last_padding, last_time, left_laser_next, pace_changes, call, outer>>

\* The for statement takes the next index after a continue or the body's end.
Advance ==
    /\ pc \in {"L201", "L222", "L324"}
    /\ i' = i + 1
    /\ pc' = "L173"
    /\ UNCHANGED <<notes, events, last_padding, last_time, left_laser_next,
                   pace_changes, double_lasers, padding, ev_mark, call, outer>>

\* Lines 209-324 for the note the look-ahead kept.  A bomb leaves through
\* the continue of line 222.  calculate_laser_speed divides by the gap: with
\* a gap of 0 the call of line 315 raises ZeroDivisionError after the
\* value-0 laser event was appended and before lines 323-324 run.
Light ==
    /\ pc = "L209"
    /\ LET nt == At(notes, i)
           t == nt.time
           special == nt.cutDirection = 8 \/ nt.type = 3
           fires == ~special /\ PaceFires(padding, last_padding, i)
           head == IF special THEN BackLight(t, padding)
                   ELSE IF fires THEN <<Ev(t, 9, 0)>> ELSE <<>>
           light == IF nt.cutDirection # 8
                    THEN <<Ev(t, 4, LightValue(padding)), Ev(t, 0, 0)>>
                    ELSE <<>>
           laser_side == LaserSide(left_laser_next)
       IN  IF IsBomb(nt)
           THEN /\ events' = events \o head
                /\ pc' = "L222"
                /\ UNCHANGED <<last_padding, last_time, left_laser_next, pace_changes>>
           ELSE /\ pace_changes' = IF fires
                                   THEN Append(pace_changes, PaceEntry(PacePrefix(padding), t))
                                   ELSE pace_changes
                /\ IF BothLasers(double_lasers, padding)
                   THEN /\ events' = events \o head \o light \o DoubleLaserEvents(t, padding)
                        /\ UNCHANGED left_laser_next
                        /\ last_padding' = padding
                        /\ last_time' = t
                        /\ pc' = "L324"
                   ELSE /\ left_laser_next' = ~left_laser_next
                        /\ IF padding = 0
                           THEN /\ events' = events \o head \o light
                                                \o <<Ev(t, OffType(left_laser_next), 0)>>
                                /\ pc' = "raise"
                                /\ UNCHANGED <<last_padding, last_time>>
                           ELSE /\ events' = events \o head \o light
                                                \o <<Ev(t, OffType(left_laser_next), 0)>>
                                                \o SingleLaserTail(t, padding, laser_side)
                                /\ last_padding' = padding
                                /\ last_time' = t
                                /\ pc' = "L324"
    /\ UNCHANGED <<notes, i, double_lasers, padding, ev_mark, call, outer>>

\* Line 173 with the notes used up: on to the loop of line 327.
LoopExit ==
    /\ pc = "L173"
    /\ i >= Len(notes)
    /\ pc' = "L327"
    /\ i' = 0
    /\ UNCHANGED <<notes, events, last_padding, last_time, left_laser_next,
                   pace_changes, double_lasers, padding, ev_mark, call, outer>>

\* Lines 327-364 for one entry of the pace-change log.
RingFill ==
    /\ pc = "L327"
    /\ i < Len(pace_changes)
    /\ ev_mark' = Len(events)
    /\ events' = events \o RingEvents(pace_changes, i)
    /\ i' = i + 1
    /\ UNCHANGED <<notes, pc, last_padding, last_time, left_laser_next,
                   pace_changes, double_lasers, padding, call, outer>>

\* Line 366.
Return ==
    /\ pc = "L327"
    /\ i >= Len(pace_changes)
    /\ pc' = "L366"
    /\ UNCHANGED <<notes, events, i, last_padding, last_time, left_laser_next,
                   pace_changes, double_lasers, padding, ev_mark, call, outer>>

Next == Begin \/ Scan \/ Light \/ Advance \/ LoopExit \/ RingFill \/ Return

Spec == Init /\ [][Next]_vars

\* ------------------------------------------------------------------------
\* calculate_laser_speed on its own: two calls on gaps drawn from the
\* rationals num / den, 1 <= num <= MaxNum, 1 <= den <= MaxDenom.
Gaps == (1..MaxNum) \X (1..MaxDenom)

SpeedInit ==
    /\ notes = <<>>
    /\ events = <<>>
    /\ pc = "idle"
    /\ i = 0
    /\ last_padding = 0
    /\ last_time = None
    /\ left_laser_next = TRUE
    /\ pace_changes = <<>>
    /\ double_lasers = FALSE
    /\ padding = 0
    /\ ev_mark = 0
    /\ call \in [a : Gaps, b : Gaps, ra : {0}, rb : {0}, at : {"a"}]
    /\ OuterIdle

SpeedCallA ==
    /\ call.at = "a"
    /\ call' = [call EXCEPT !.ra = CalcSpeed(call.a[1], call.a[2]), !.at = "b"]
    /\ UNCHANGED <<notes, events, pc, i, last_padding, last_time, left_laser_next,
                   pace_changes, double_lasers, padding, ev_mark, outer>>

SpeedCallB ==
    /\ call.at = "b"
    /\ call' = [call EXCEPT !.rb = CalcSpeed(call.b[1], call.b[2]), !.at = "done"]
    /\ UNCHANGED <<notes, events, pc, i, last_padding, last_time, left_laser_next,
                   pace_changes, double_lasers, padding, ev_mark, outer>>

SpeedNext == SpeedCallA \/ SpeedCallB

SpeedSpec == SpeedInit /\ [][SpeedNext]_vars

\* ------------------------------------------------------------------------
\* create_light_map (lines 368-401) and the lighting step of get_map (lines
\* 645-654), over the files of one extraction directory.  The program
\* counter goes from the loop of line 647 into create_light_map, from line
\* 390 into add_lighting_events (the actions above) and back.

\* The note lists of the level files of the batch: one whose only note is
\* at time 0, one with a single block, one with a bomb, a block stacked on
\* it and an any-direction block.
NoteAtZero == <<[time |-> 0, type |-> 0, cutDirection |-> 0]>>
OneBlock == <<[time |-> 2, type |-> 0, cutDirection |-> 0]>>
ThreeNotes ==
    <<[time |-> 1, type |-> 3, cutDirection |-> 0],
      [time |-> 1, type |-> 0, cutDirection |-> 0],
      [time |-> 4, type |-> 0, cutDirection |-> 8]>>

\* What a .dat file of a level may hold: a legacy beatmap, with or without
\* events of an earlier run; a document without "_version" (the newer
\* schema) or without "_notes"; text that is no JSON.
LevelDocs ==
    {Doc(TRUE, TRUE, TRUE, NoteAtZero, <<>>),
     Doc(TRUE, TRUE, TRUE, OneBlock, <<>>),
     Doc(TRUE, TRUE, TRUE, OneBlock, <<Ev(0, 5, 1)>>),
     Doc(TRUE, TRUE, TRUE, ThreeNotes, <<Ev(0, 5, 1)>>),
     Doc(TRUE, FALSE, TRUE, OneBlock, <<>>),
     Doc(TRUE, TRUE, FALSE, <<>>, <<>>),
     NoDoc}

\* Info.dat: song metadata, with "_version" and without "_notes".
InfoDoc == Doc(TRUE, TRUE, FALSE, <<>>, <<>>)

\* 'Info.dat' of line 648.
IsLevelNameAny(f) == f.suffix = ".dat"

\* Line 648: dat_file.name != 'Info.dat'.
IsLevelName(f) == f # InfoDat

\* Line 647: the pattern '*.dat'.
GlobMatches(f) == f.suffix = ".dat"

ValidVersionOnly(d) == d.has_version

\* Lines 384-387: neither RuntimeError is raised.
ValidBeatmap(d) == d.has_version /\ d.has_notes

\* temp_file of line 393.
TempFile == WithSuffix(filename, ".dat.tmp")

BatchInit ==
    /\ notes = <<>>
    /\ events = <<>>
    /\ pc = "L646"
    /\ i = 0
    /\ last_padding = 0
    /\ last_time = None
    /\ left_laser_next = TRUE
    /\ pace_changes = <<>>
    /\ double_lasers = FALSE
    /\ padding = 0
    /\ ev_mark = 0
    /\ call = NoCall
    /\ \E level \in [LevelFiles -> LevelDocs] :
           disk = [p \in Paths |-> IF p \in LevelFiles THEN File(level[p], "full")
                                   ELSE IF p = InfoDat THEN File(InfoDoc, "full")
                                   ELSE IF p = SongFile THEN File(NoDoc, "full")
                                   ELSE NoFile]
    /\ orig = disk
    /\ todo = {}
    /\ filename = InfoDat
    /\ beatmap = NoDoc
    /\ calls = [p \in Paths |-> 0]
    /\ synth_calls = {}
    /\ reported = {}
    /\ returned = {}
    /\ rewritten = {}
    /\ pass = 1
    /\ ScriptIdle
    /\ ArgsIdle

synth_vars == <<notes, events, i, last_padding, last_time, left_laser_next,
                pace_changes, double_lasers, padding, ev_mark, call>>

\* Line 647, first step of the generator: the directory is listed once.
Glob ==
    /\ pc = "L646"
    /\ todo' = {p \in Paths : disk[p].part # "absent" /\ GlobMatches(p)}
    /\ pc' = "L647"
    /\ UNCHANGED <<synth_vars, args_vars, script_vars, disk, orig, filename, beatmap, calls, synth_calls, reported,
                   returned, rewritten, pass>>

\* Lines 647-650: the next path; create_light_map is called unless the path
\* is Info.dat.  The order in which glob yields the paths is not fixed.
NextFile ==
    /\ pc = "L647"
    /\ \E f \in todo :
           /\ todo' = todo \ {f}
           /\ IF IsLevelName(f)
              THEN /\ filename' = f
                   /\ calls' = [calls EXCEPT ![f] = @ + 1]
                   /\ pc' = "L380"
              ELSE /\ pc' = "L647"
                   /\ UNCHANGED <<filename, calls>>
    /\ UNCHANGED <<synth_vars, args_vars, script_vars, disk, orig, beatmap, synth_calls, reported, returned,
                   rewritten, pass>>

\* Lines 380-381: open and json.load.  The open may fail (ok = FALSE), and
\* the text may be no JSON document.
OpenRead ==
    /\ pc = "L380"
    /\ \E ok \in BOOLEAN :
           IF ok /\ disk[filename].part = "full" /\ disk[filename].doc.parses
           THEN /\ beatmap' = disk[filename].doc
                /\ pc' = "L384"
           ELSE /\ pc' = "L400"
                /\ UNCHANGED beatmap
    /\ UNCHANGED <<synth_vars, args_vars, script_vars, disk, orig, todo, filename, calls, synth_calls, reported,
                   returned, rewritten, pass>>

\* Lines 384-390: the two tests, then the call of add_lighting_events.
Validate ==
    /\ pc = "L384"
    /\ IF ValidBeatmap(beatmap)
       THEN /\ notes' = beatmap.notes
            /\ events' = beatmap.events
            /\ synth_calls' = synth_calls \cup {filename}
            /\ pc' = "L167"
       ELSE /\ pc' = "L400"
            /\ UNCHANGED <<notes, events, synth_calls>>
    /\ UNCHANGED <<i, last_padding, last_time, left_laser_next, pace_changes, double_lasers,
                   padding, ev_mark, call, disk, orig, todo, filename, beatmap, calls,
                   reported, returned, rewritten, pass, script_vars, args_vars>>

\* Line 390: add_lighting_events has returned the document.
SynthReturn ==
    /\ pc = "L366"
    /\ beatmap' = [beatmap EXCEPT !.events = events]
    /\ returned' = returned \cup {[pass |-> pass, file |-> filename, notes |-> notes,
                                   events |-> events]}
    /\ pc' = "L394"
    /\ UNCHANGED <<synth_vars, args_vars, script_vars, disk, orig, todo, filename, calls, synth_calls, reported,
                   rewritten, pass>>

\* An exception left add_lighting_events: on to the handler of line 400.
SynthRaise ==
    /\ pc = "raise"
    /\ pc' = "L400"
    /\ UNCHANGED <<synth_vars, args_vars, script_vars, batch_vars>>

\* Line 394: open(temp_file, 'w') creates or truncates the temporary file.
OpenTemp ==
    /\ pc = "L394"
    /\ \E ok \in BOOLEAN :
           IF ok
           THEN /\ disk' = [disk EXCEPT ![TempFile] = File(beatmap, "empty")]
                /\ pc' = "L395"
           ELSE /\ pc' = "L400"
                /\ UNCHANGED disk
    /\ UNCHANGED <<synth_vars, args_vars, script_vars, orig, todo, filename, beatmap, calls, synth_calls, reported,
                   returned, rewritten, pass>>

\* Line 395: json.dump writes the text piece by piece; the with statement
\* closes the file after the last piece.  A write may fail (ok = FALSE).
Dump ==
    /\ pc = "L395"
    /\ \E ok \in BOOLEAN :
           IF ~ok
           THEN /\ pc' = "L400"
                /\ UNCHANGED disk
           ELSE IF disk[TempFile].part = "empty"
           THEN /\ disk' = [disk EXCEPT ![TempFile].part = "partial"]
                /\ pc' = "L395"
           ELSE /\ disk' = [disk EXCEPT ![TempFile].part = "full"]
                /\ pc' = "L398"
    /\ UNCHANGED <<synth_vars, args_vars, script_vars, orig, todo, filename, beatmap, calls, synth_calls, reported,
                   returned, rewritten, pass>>

\* Line 398: temp_file.replace(filename), one rename; create_light_map
\* returns to the loop of line 647.
Replace ==
    /\ pc = "L398"
    /\ \E ok \in BOOLEAN :
           IF ok
           THEN /\ disk' = [disk EXCEPT ![TempFile] = NoFile, ![filename] = disk[TempFile]]
                /\ rewritten' = rewritten \cup {filename}
                /\ pc' = "L647"
           ELSE /\ pc' = "L400"
                /\ UNCHANGED <<disk, rewritten>>
    /\ UNCHANGED <<synth_vars, args_vars, script_vars, orig, todo, filename, beatmap, calls, synth_calls, reported,
                   returned, pass>>

\* Lines 400-401: every exception is raised on as a RuntimeError, to line 651.
Except ==
    /\ pc = "L400"
    /\ pc' = "L651"
    /\ UNCHANGED <<synth_vars, args_vars, script_vars, batch_vars>>

\* Lines 651-653: the failure is printed and the loop goes on.
Report ==
    /\ pc = "L651"
    /\ reported' = reported \cup {filename}
    /\ pc' = "L647"
    /\ UNCHANGED <<synth_vars, args_vars, script_vars, disk, orig, todo, filename, beatmap, calls, synth_calls,
                   returned, rewritten, pass>>

\* Line 654: the generator is used up.
LoopDone ==
    /\ pc = "L647"
    /\ todo = {}
    /\ pc' = "L654"
    /\ UNCHANGED <<synth_vars, args_vars, script_vars, batch_vars>>

\* The lighting step is run once more over the directory as the first run
\* left it: each level file now holds its own output.
RunAgain ==
    /\ pc = "L654"
    /\ pass = 1
    /\ pass' = 2
    /\ orig' = disk
    /\ calls' = [p \in Paths |-> 0]
    /\ synth_calls' = {}
    /\ reported' = {}
    /\ rewritten' = {}
    /\ pc' = "L646"
    /\ UNCHANGED <<synth_vars, args_vars, script_vars, disk, todo, filename, beatmap, returned>>

\* The process is killed, at any step.
Kill ==
    /\ pc # "killed"
    /\ pc' = "killed"
    /\ UNCHANGED <<synth_vars, args_vars, script_vars, batch_vars>>

BatchNext ==
    \/ Glob \/ NextFile \/ OpenRead \/ Validate
    \/ Begin \/ Scan \/ Advance \/ Light \/ LoopExit \/ RingFill \/ Return
    \/ SynthReturn \/ SynthRaise \/ OpenTemp \/ Dump \/ Replace
    \/ Except \/ Report \/ LoopDone \/ RunAgain \/ Kill

BatchSpec == BatchInit /\ [][BatchNext]_vars

\* ------------------------------------------------------------------------
\* The script: __main__ (lines 911-936), process_files (lines 874-909) and
\* get_map (lines 499-664) up to its lighting step, which is modelled above
\* and is one step here.

\* How many audio files a run is given, at most.
MaxFiles == 2

\* max_attempts of line 585.
max_attempts == 75

\* What a request to the service comes to: an answer that parses, a
\* requests.exceptions.RequestException (no connection, a timeout, an HTTP
\* error status through raise_for_status), an answer that is no JSON.
\* A heartbeat that parses carries a status: "DONE", "ERROR" or another one.
HeartbeatOutcomes == {"DONE", "ERROR", "PENDING", "request_failed", "bad_json"}

\* Lines 659-664: the except clauses of get_map, by the class of exception.
Wrap(e) ==
    IF e.type = "RequestException" THEN Exc("RuntimeError", <<"Network error occurred">> \o e.msg)
    ELSE IF e.type = "JSONDecodeError" THEN Exc("RuntimeError", <<"Invalid JSON response">> \o e.msg)
    ELSE Exc("RuntimeError", <<"Unexpected error">> \o e.msg)

AfterHeartbeatNoCount(outcome) ==
    IF outcome = "request_failed"
    THEN [pc |-> "L659", step |-> 0, error |-> Exc("RequestException", <<"heartbeat">>)]
    ELSE IF outcome = "bad_json"
    THEN [pc |-> "L659", step |-> 0, error |-> Exc("JSONDecodeError", <<"heartbeat">>)]
    ELSE IF outcome = "DONE" THEN [pc |-> "L608", step |-> 0, error |-> NoExc]
    ELSE IF outcome = "ERROR"
    THEN [pc |-> "L659", step |-> 0, error |-> Exc("RuntimeError", <<"Map generation failed">>)]
    ELSE [pc |-> "L588", step |-> 0, error |-> NoExc]

AfterHeartbeatRetrying(outcome) ==
    IF outcome = "DONE" THEN [pc |-> "L608", step |-> 0, error |-> NoExc]
    ELSE IF outcome = "ERROR"
    THEN [pc |-> "L659", step |-> 0, error |-> Exc("RuntimeError", <<"Map generation failed">>)]
    ELSE [pc |-> "L588", step |-> 1, error |-> NoExc]

\* Lines 589-604 once the request of line 589 has come to outcome: where the
\* function goes on, by how much attempt grows, what is raised.
AfterHeartbeat(outcome) ==
    IF outcome = "request_failed"
    THEN [pc |-> "L659", step |-> 0, error |-> Exc("RequestException", <<"heartbeat">>)]
    ELSE IF outcome = "bad_json"
    THEN [pc |-> "L659", step |-> 0, error |-> Exc("JSONDecodeError", <<"heartbeat">>)]
    ELSE IF outcome = "DONE" THEN [pc |-> "L608", step |-> 0, error |-> NoExc]
    ELSE IF outcome = "ERROR"
    THEN [pc |-> "L659", step |-> 0, error |-> Exc("RuntimeError", <<"Map generation failed">>)]
    ELSE [pc |-> "L588", step |-> 1, error |-> NoExc]

ScriptInit ==
    /\ notes = <<>>
    /\ events = <<>>
    /\ pc = "L912"
    /\ i = 0
    /\ last_padding = 0
    /\ last_time = None
    /\ left_laser_next = TRUE
    /\ pace_changes = <<>>
    /\ double_lasers = FALSE
    /\ padding = 0
    /\ ev_mark = 0
    /\ call = NoCall
    /\ BatchIdle
    /\ ScriptIdle
    /\ ArgsIdle

\* Lines 912-928: arguments, output directory, input files.  Any of these
\* may raise (ok = FALSE); otherwise there is at least one audio file.
Main ==
    /\ pc = "L912"
    /\ \E ok \in BOOLEAN :
           IF ok
           THEN /\ \E n \in 1..MaxFiles : left' = n
                /\ pc' = "L902"
                /\ UNCHANGED error
           ELSE /\ error' = Exc("ValueError", <<"Invalid arguments">>)
                /\ pc' = "L934"
                /\ UNCHANGED left
    /\ UNCHANGED <<synth_vars, args_vars, batch_vars, attempt, heartbeats, downloads, failures, stdout,
                   stderr, exit_code>>

\* Lines 902-906: the next audio file, and into get_map.
NextAudio ==
    /\ pc = "L902"
    /\ left > 0
    /\ left' = left - 1
    /\ attempt' = 0
    /\ heartbeats' = <<>>
    /\ downloads' = 0
    /\ pc' = "L527"
    /\ UNCHANGED <<synth_vars, args_vars, batch_vars, error, failures, stdout, stderr, exit_code>>

\* Lines 527-569: tags, payload, cookies.  Reading the file may raise; with
\* use_patreon set and no valid cookie line 563 exits with status 1, a
\* SystemExit that no except clause of the script catches.
Prepare ==
    /\ pc = "L527"
    /\ \E outcome \in {"ok", "unreadable", "no_cookie"} :
           IF outcome = "ok"
           THEN /\ pc' = "L572"
                /\ UNCHANGED <<error, stdout, exit_code>>
           ELSE IF outcome = "unreadable"
           THEN /\ error' = Exc("RuntimeError", <<"Failed to read MP3 tags">>)
                /\ pc' = "L659"
                /\ UNCHANGED <<stdout, exit_code>>
           ELSE /\ stdout' = Append(stdout, <<"Patreon features required but not available">>)
                /\ exit_code' = 1
                /\ pc' = "exit"
                /\ UNCHANGED error
    /\ UNCHANGED <<synth_vars, args_vars, batch_vars, left, attempt, heartbeats, downloads, failures,
                   stderr>>

\* Lines 572-586: the upload, its answer, the start of the polling.
Upload ==
    /\ pc = "L572"
    /\ \E outcome \in {"ok", "too_large", "request_failed", "bad_json"} :
           IF outcome = "ok"
           THEN /\ attempt' = 0
                /\ pc' = "L588"
                /\ UNCHANGED error
           ELSE /\ error' = IF outcome = "too_large"
                            THEN Exc("RuntimeError", <<"File size or song length limit exceeded">>)
                            ELSE IF outcome = "request_failed"
                            THEN Exc("RequestException", <<"upload">>)
                            ELSE Exc("JSONDecodeError", <<"upload">>)
                /\ pc' = "L659"
                /\ UNCHANGED attempt
    /\ UNCHANGED <<synth_vars, args_vars, batch_vars, left, heartbeats, downloads, failures, stdout,
                   stderr, exit_code>>

\* Lines 588-604: one turn of the polling loop.
Heartbeat ==
    /\ pc = "L588"
    /\ attempt < max_attempts
    /\ \E outcome \in HeartbeatOutcomes :
           /\ heartbeats' = Append(heartbeats, outcome)
           /\ pc' = AfterHeartbeat(outcome).pc
           /\ attempt' = attempt + AfterHeartbeat(outcome).step
           /\ error' = AfterHeartbeat(outcome).error
    /\ UNCHANGED <<synth_vars, args_vars, batch_vars, left, downloads, failures, stdout, stderr,
                   exit_code>>

\* Lines 605-606: the else of the while statement.
TimedOut ==
    /\ pc = "L588"
    /\ attempt >= max_attempts
    /\ error' = Exc("RuntimeError", <<"Map generation timed out">>)
    /\ pc' = "L659"
    /\ UNCHANGED <<synth_vars, args_vars, batch_vars, left, attempt, heartbeats, downloads, failures,
                   stdout, stderr, exit_code>>

\* Lines 608-643: the download request, the archive, the extraction.
Download ==
    /\ pc = "L608"
    /\ downloads' = downloads + 1
    /\ \E outcome \in {"ok", "request_failed", "bad_zip"} :
           IF outcome = "ok"
           THEN /\ pc' = "L645"
                /\ UNCHANGED error
           ELSE /\ error' = IF outcome = "request_failed"
                            THEN Exc("RequestException", <<"download">>)
                            ELSE Exc("BadZipFile", <<"File is not a zip file">>)
                /\ pc' = "L659"
    /\ UNCHANGED <<synth_vars, args_vars, batch_vars, left, attempt, heartbeats, failures, stdout,
                   stderr, exit_code>>

\* Lines 645-657: the lighting step, which catches what it raises, and the
\* return of get_map to line 902.
Lighting ==
    /\ pc = "L645"
    /\ stdout' = Append(stdout, <<"Map generation complete">>)
    /\ pc' = "L902"
    /\ UNCHANGED <<synth_vars, args_vars, batch_vars, left, attempt, heartbeats, downloads, error,
                   failures, stderr, exit_code>>

\* Lines 659-664: get_map raises a RuntimeError to process_files.
Raise ==
    /\ pc = "L659"
    /\ error' = Wrap(error)
    /\ failures' = Append(failures, Wrap(error))
    /\ pc' = "L907"
    /\ UNCHANGED <<synth_vars, args_vars, batch_vars, left, attempt, heartbeats, downloads, stdout,
                   stderr, exit_code>>

\* Lines 907-909: the message goes to stdout and the loop goes on.
FileFailed ==
    /\ pc = "L907"
    /\ stdout' = Append(stdout, <<"Error processing">> \o error.msg)
    /\ error' = NoExc
    /\ pc' = "L902"
    /\ UNCHANGED <<synth_vars, args_vars, batch_vars, left, attempt, heartbeats, downloads, failures,
                   stderr, exit_code>>

\* Line 933 and the end of the script: exit status 0.
AllDone ==
    /\ pc = "L902"
    /\ left = 0
    /\ stdout' = Append(stdout, <<"All files processed!">>)
    /\ exit_code' = 0
    /\ pc' = "exit"
    /\ UNCHANGED <<synth_vars, args_vars, batch_vars, left, attempt, heartbeats, downloads, error,
                   failures, stderr>>

\* Lines 934-936: the message goes to stderr, exit status 1.
MainFailed ==
    /\ pc = "L934"
    /\ stderr' = Append(stderr, <<"Error">> \o error.msg)
    /\ exit_code' = 1
    /\ pc' = "exit"
    /\ UNCHANGED <<synth_vars, args_vars, batch_vars, left, attempt, heartbeats, downloads, error,
                   failures, stdout>>

ScriptNext ==
    \/ Main \/ NextAudio \/ Prepare \/ Upload \/ Heartbeat \/ TimedOut \/ Download
    \/ Lighting \/ Raise \/ FileFailed \/ AllDone \/ MainFailed

ScriptSpec == ScriptInit /\ [][ScriptNext]_vars

\* ------------------------------------------------------------------------
\* The options: validate_args (lines 831-872) and the mapping to canonical
\* names at the head of process_files (lines 884-889).  An option string is
\* a sequence of characters.

\* Lines 78-95: the keys are character sequences.
environments ==
    (<<"d", "e", "f", "a", "u", "l", "t">> :> "DefaultEnvironment")
    @@ (<<"o", "r", "i", "g", "i", "n", "s">> :> "Origins")
    @@ (<<"t", "r", "i", "a", "n", "g", "l", "e">> :> "TriangleEnvironment")
    @@ (<<"n", "i", "c", "e">> :> "NiceEnvironment")
    @@ (<<"b", "i", "g", "m", "i", "r", "r", "o", "r">> :> "BigMirrorEnvironment")
    @@ (<<"d", "r", "a", "g", "o", "n", "s">> :> "DragonsEnvironment")
    @@ (<<"k", "d", "a">> :> "KDAEnvironment")
    @@ (<<"m", "o", "n", "s", "t", "e", "r", "c", "a", "t">> :> "MonstercatEnvironment")
    @@ (<<"c", "r", "a", "b", "r", "a", "v", "e">> :> "CrabRaveEnvironment")
    @@ (<<"p", "a", "n", "i", "c">> :> "PanicEnvironment")
    @@ (<<"r", "o", "c", "k", "e", "t">> :> "RocketEnvironment")
    @@ (<<"g", "r", "e", "e", "n", "d", "a", "y">> :> "GreenDayEnvironment")
    @@ (<<"g", "r", "e", "e", "n", "d", "a", "y", "g", "r", "e", "n", "a", "d", "e">> :> "GreenDayGrenadeEnvironment")
    @@ (<<"t", "i", "m", "b", "a", "l", "a", "n", "d">> :> "TimbalandEnvironment")
    @@ (<<"f", "i", "t", "b", "e", "a", "t">> :> "FitBeatEnvironment")
    @@ (<<"l", "i", "n", "k", "i", "n", "p", "a", "r", "k">> :> "LinkinParkEnvironment")

\* Lines 97-105: the keys are character sequences.
difficulties ==
    (<<"n", "o", "r", "m", "a", "l">> :> "Normal")
    @@ (<<"n", "o", "r", "m">> :> "Normal")
    @@ (<<"h", "a", "r", "d">> :> "Hard")
    @@ (<<"e", "x", "p", "e", "r", "t">> :> "Expert")
    @@ (<<"e", "x", "p">> :> "Expert")
    @@ (<<"e", "x", "p", "e", "r", "t", "p", "l", "u", "s">> :> "ExpertPlus")
    @@ (<<"e", "x", "p", "l", "u", "s">> :> "ExpertPlus")

\* Lines 107-114: the keys are character sequences.
modes ==
    (<<"s", "t", "a", "n", "d", "a", "r", "d">> :> "Standard")
    @@ (<<"s", "t", "d">> :> "Standard")
    @@ (<<"9", "0", "d", "e", "g", "r", "e", "e">> :> "90Degree")
    @@ (<<"9", "0", "d", "e", "g">> :> "90Degree")
    @@ (<<"n", "o", "a", "r", "r", "o", "w", "s">> :> "NoArrows")
    @@ (<<"o", "n", "e", "s", "a", "b", "e", "r">> :> "OneSaber")

\* Lines 116-122: the keys are character sequences.
options_events ==
    (<<"d", "o", "t", "b", "l", "o", "c", "k", "s">> :> "DotBlocks")
    @@ (<<"d", "o", "t", "s">> :> "DotBlocks")
    @@ (<<"o", "b", "s", "t", "a", "c", "l", "e", "s">> :> "Obstacles")
    @@ (<<"o", "b", "s">> :> "Obstacles")
    @@ (<<"b", "o", "m", "b", "s">> :> "Bombs")

\* Lines 124-130: the keys are character sequences.
model_tags ==
    (<<"o", "n", "e">> :> "v1")
    @@ (<<"v", "1">> :> "v1")
    @@ (<<"t", "w", "o">> :> "v2")
    @@ (<<"v", "2">> :> "v2")
    @@ (<<"f", "l", "o", "w">> :> "v2-flow")

\* The most tokens of a comma-separated option.
MaxTokens == 2

UpperCase == <<"A", "B", "C", "D", "E", "F", "G", "H", "I", "J", "K", "L", "M",
               "N", "O", "P", "Q", "R", "S", "T", "U", "V", "W", "X", "Y", "Z">>

LowerCase == <<"a", "b", "c", "d", "e", "f", "g", "h", "i", "j", "k", "l", "m",
               "n", "o", "p", "q", "r", "s", "t", "u", "v", "w", "x", "y", "z">>

\* What str.strip() takes for blank.
Whitespace == {" ", "\t", "\n", "\r"}

\* str.lower(), character by character.
Lower(s) ==
    [k \in 1..Len(s) |->
        IF \E n \in 1..Len(UpperCase) : UpperCase[n] = s[k]
        THEN LowerCase[CHOOSE n \in 1..Len(UpperCase) : UpperCase[n] = s[k]]
        ELSE s[k]]

\* str.strip(): the blanks at both ends are dropped.
RECURSIVE Strip(_)
Strip(s) ==
    IF s = <<>> THEN s
    ELSE IF Head(s) \in Whitespace THEN Strip(Tail(s))
    ELSE IF s[Len(s)] \in Whitespace THEN Strip(SubSeq(s, 1, Len(s) - 1))
    ELSE s

\* str.split(','): the pieces between the commas, empty ones included.
RECURSIVE Split(_)
Split(s) ==
    IF \A k \in 1..Len(s) : s[k] # ","
    THEN <<s>>
    ELSE LET c == CHOOSE k \in 1..Len(s) : s[k] = "," /\ \A m \in 1..(k - 1) : s[m] # ","
         IN  <<SubSeq(s, 1, c - 1)>> \o Split(SubSeq(s, c + 1, Len(s)))

\* ",".join(names): the names with a comma between two of them.
RECURSIVE Join(_)
Join(names) ==
    IF names = <<>> THEN <<>>
    ELSE IF Len(names) = 1 THEN names
    ELSE <<names[1], ",">> \o Join(Tail(names))

\* Lines 846-847, 852-853, 858-859: the tokens of a list option, stripped
\* and lower-cased, that are no key of the dictionary.
InvalidTokens(s, dict) ==
    {Lower(Strip(Split(s)[k])) : k \in 1..Len(Split(s))} \ DOMAIN dict

\* Lines 841-865: the exception validate_args raises, NoExc when none.
ValidateError(a) ==
    IF a.environment \notin DOMAIN environments
    THEN Exc("ValueError", <<"Invalid environment">>)
    ELSE IF InvalidTokens(a.difficulties, difficulties) # {}
    THEN Exc("ValueError", <<"Invalid difficulties">>)
    ELSE IF InvalidTokens(a.modes, modes) # {}
    THEN Exc("ValueError", <<"Invalid modes">>)
    ELSE IF InvalidTokens(a.events, options_events) # {}
    THEN Exc("ValueError", <<"Invalid events">>)
    ELSE IF a.model_tag \notin DOMAIN model_tags
    THEN Exc("ValueError", <<"Invalid model tag">>)
    ELSE NoExc

\* Lines 885-887: [dict[x] for x in s.split(',')] looks every token up as
\* it is; the lookup of a token that is no key raises KeyError.
LooksUp(s, dict) == \A k \in 1..Len(Split(s)) : Split(s)[k] \in DOMAIN dict

MapTokens(s, dict) == Join([k \in 1..Len(Split(s)) |-> dict[Split(s)[k]]])

\* Lines 885-889: the exception the mapping raises, NoExc when none.
MapError(a) ==
    IF /\ LooksUp(a.difficulties, difficulties)
       /\ LooksUp(a.modes, modes)
       /\ LooksUp(a.events, options_events)
       /\ a.environment \in DOMAIN environments
       /\ a.model_tag \in DOMAIN model_tags
    THEN NoExc
    ELSE Exc("KeyError", <<"token">>)

\* Tokens a user may give for a difficulty, a mode, an event: keys as they
\* are, keys with a blank before or after, keys in capitals, a word that
\* is no key, nothing.
DifficultyTokens ==
    {<<"e", "x", "p">>, <<"h", "a", "r", "d">>, <<" ", "e", "x", "p">>,
     <<"H", "a", "r", "d">>, <<"e", "a", "s", "y">>}

ModeTokens == {<<"s", "t", "d">>, <<"s", "t", "d", " ">>, <<>>}

EventTokens == {<<"o", "b", "s">>, <<"D", "o", "t", "s">>}

EnvironmentNames == {<<"k", "d", "a">>, <<"K", "D", "A">>, <<" ", "k", "d", "a">>}

ModelTags == {<<"v", "2">>, <<"V", "2">>}

\* The option strings of one to MaxTokens tokens, commas between them.
RECURSIVE OptionStrings(_, _)
OptionStrings(tokens, n) ==
    IF n = 1 THEN tokens
    ELSE OptionStrings(tokens, n - 1)
             \cup {s \o <<",">> \o t : s \in OptionStrings(tokens, n - 1), t \in tokens}

ArgsInit ==
    /\ notes = <<>>
    /\ events = <<>>
    /\ pc = "L912"
    /\ i = 0
    /\ last_padding = 0
    /\ last_time = None
    /\ left_laser_next = TRUE
    /\ pace_changes = <<>>
    /\ double_lasers = FALSE
    /\ padding = 0
    /\ ev_mark = 0
    /\ call = NoCall
    /\ BatchIdle
    /\ ScriptIdle
    /\ args \in [difficulties : OptionStrings(DifficultyTokens, MaxTokens),
                 modes : OptionStrings(ModeTokens, MaxTokens),
                 events : OptionStrings(EventTokens, MaxTokens),
                 environment : EnvironmentNames,
                 model_tag : ModelTags]
    /\ mapped = NoMapped

\* Lines 914-917: validate_args returns or raises ValueError.
ValidateArgs ==
    /\ pc = "L912"
    /\ error' = ValidateError(args)
    /\ pc' = IF ValidateError(args) = NoExc THEN "L920" ELSE "L934"
    /\ UNCHANGED <<synth_vars, batch_vars, args_vars, left, attempt, heartbeats, downloads,
                   failures, stdout, stderr, exit_code>>

\* Lines 920-928: the output directory and the input files, which may fail.
PrepareRun ==
    /\ pc = "L920"
    /\ \E ok \in BOOLEAN :
           IF ok
           THEN /\ pc' = "L885"
                /\ UNCHANGED error
           ELSE /\ error' = Exc("RuntimeError", <<"No audio files">>)
                /\ pc' = "L934"
    /\ UNCHANGED <<synth_vars, batch_vars, args_vars, left, attempt, heartbeats, downloads,
                   failures, stdout, stderr, exit_code>>

\* Lines 885-889: the options are mapped, or a lookup raises KeyError,
\* which no handler catches before the one of line 933.
MapOptions ==
    /\ pc = "L885"
    /\ error' = MapError(args)
    /\ IF MapError(args) = NoExc
       THEN /\ mapped' = [diffs |-> MapTokens(args.difficulties, difficulties),
                          modes |-> MapTokens(args.modes, modes),
                          events |-> MapTokens(args.events, options_events),
                          env |-> environments[args.environment],
                          tag |-> model_tags[args.model_tag]]
            /\ pc' = "L891"
       ELSE /\ pc' = "L934"
            /\ UNCHANGED mapped
    /\ UNCHANGED <<synth_vars, batch_vars, args, left, attempt, heartbeats, downloads,
                   failures, stdout, stderr, exit_code>>

ArgsNext == ValidateArgs \/ PrepareRun \/ MapOptions \/ MainFailed

ArgsSpec == ArgsInit /\ [][ArgsNext]_vars


\* ------------------------------------------------------------------------
\* What the claims speak of.

\* The events appended since the current iteration began.
Emitted == SubSeq(events, ev_mark + 1, Len(events))

IsLaser(e) == e.type \in {2, 3, 12, 13}

\* Note idx has a note right after it at the same timestamp.
HasStackedSuccessor(idx) ==
    idx + 1 < Len(notes) /\ At(notes, idx + 1).time = At(notes, idx).time

\* The ring-rotation trigger the look-ahead of note idx appends, if any.
RingTrigger(idx) ==
    IF HasStackedSuccessor(idx) THEN <<Ev(At(notes, idx).time, 8, 0)>> ELSE <<>>

\* The indices after idx whose time differs from that of note idx.
LaterDistinct(idx) ==
    {j \in (idx + 1)..(Len(notes) - 1) : At(notes, j).time # At(notes, idx).time}

\* The gap of note idx as the specification defines it.
SpecGap(idx) ==
    IF LaterDistinct(idx) = {}
    THEN At(notes, idx).time
    ELSE At(notes, CHOOSE j \in LaterDistinct(idx) : \A m \in LaterDistinct(idx) : j <= m).time
             - At(notes, idx).time

\* The two back-light events of lines 211-220 as the specification words them.
BackLightPair(idx) ==
    <<Ev(At(notes, idx).time, 0, IF SpecGap(idx) < TicksPerBeat THEN 6 ELSE 2),
      Ev(At(notes, idx).time, 4, 0)>>

\* The iteration of note i is over and the note was not skipped as stacked.
Processed == pc \in {"L222", "L324"}

\* C1 as stated: a processed note with cutDirection 8 produces exactly two
\* events, one of type 0 and one of type 4, and no laser, ring or pace event.
C1_OnlyBackLight ==
    (Processed /\ At(notes, i).cutDirection = 8)
        => /\ Len(Emitted) = 2
           /\ Emitted[1].type = 0
           /\ Emitted[2].type = 4

\* C1 amended: a processed note with cutDirection 8 produces the two
\* back-light events (type 0 with value 6 if gap < 1 else 2, then type 4 with
\* value 0), no pace event and no classified light event; they are preceded
\* by the ring-rotation trigger when a stacked note follows; and unless the
\* note is a bomb, laser events (at least one, at most four) follow them.
C1_BackLightThenLasers ==
    (pc \in {"L222", "L324", "raise"} /\ At(notes, i).cutDirection = 8)
        => LET head == RingTrigger(i) \o BackLightPair(i)
               rest == SubSeq(Emitted, Len(head) + 1, Len(Emitted))
           IN  /\ Len(Emitted) >= Len(head)
               /\ SubSeq(Emitted, 1, Len(head)) = head
               /\ \A k \in 1..Len(rest) : IsLaser(rest[k])
               /\ Len(rest) <= 4
               /\ (rest = <<>>) <=> (At(notes, i).type = 3)

\* C1's case: an any-direction block that is no bomb went through the laser
\* step after its two back-light events.
C1_Witness ==
    /\ pc = "L324"
    /\ At(notes, i).cutDirection = 8
    /\ At(notes, i).type # 3
    /\ Len(Emitted) = 5
    /\ IsLaser(Emitted[5])

\* C2 as stated: every note with type 3 produces exactly the two back-light
\* events and nothing else, no ring event included.
C2_BombTwoEvents ==
    (pc \in {"L201", "L222", "L324"} /\ At(notes, i).type = 3)
        => Emitted = BackLightPair(i)

\* C2 amended: a bomb that is not skipped as stacked produces exactly the two
\* back-light events (type 0 with value 6 if gap < 1 else 2, type 4 with value
\* 0), preceded by the ring-rotation trigger (type 8) when a stacked note
\* follows it, and no laser, pace or type-1 event; a bomb skipped as stacked
\* produces that trigger at most; and a bomb never reaches the laser step.
C2_BombBackLightOnly ==
    /\ (pc = "L222") => (At(notes, i).type = 3 /\ Emitted = RingTrigger(i) \o BackLightPair(i))
    /\ (pc = "L201" /\ At(notes, i).type = 3) => Emitted = RingTrigger(i)
    /\ (pc \in {"L324", "raise"}) => At(notes, i).type # 3

\* C2's case: a bomb with a stacked successor has left through line 222.
C2_Witness ==
    /\ pc = "L222"
    /\ HasStackedSuccessor(i)
    /\ Len(Emitted) = 3
    /\ SpecGap(i) >= TicksPerBeat

\* The positions in events of the value-0 laser events: one per note that
\* took the single-side branch (a colour event has value 3 or 7).
OffPositions == {k \in 1..Len(events) : events[k].type \in {2, 3} /\ events[k].value = 0}

\* How many single-side notes came up to position k of events, that one included.
Turn(k) == Cardinality({m \in OffPositions : m <= k})

\* The single-side note whose value-0 event stands at position k emitted what
\* its turn asks for: turn 1, 3, ... {type 3, value 0}, speed on type 12,
\* colour on type 2; turn 2, 4, ... {type 2, value 0}, speed on type 13,
\* colour on type 3.
TurnKept(k) ==
    /\ events[k].type = (IF Turn(k) % 2 = 1 THEN 3 ELSE 2)
    /\ k + 2 <= Len(events)
    /\ events[k + 1].type = (IF Turn(k) % 2 = 1 THEN 12 ELSE 13)
    /\ events[k + 1].time = events[k].time
    /\ events[k + 2].type = (IF Turn(k) % 2 = 1 THEN 2 ELSE 3)
    /\ events[k + 2].value \in {3, 7}
    /\ events[k + 2].time = events[k].time

\* The note of this iteration took the single-side branch of lines 294-321.
SingleSide == ~(HasStackedSuccessor(i) /\ SpecGap(i) >= 2 * TicksPerBeat)

\* C3: the laser side alternates strictly over the notes that take the
\* single-side branch, starting with {type 3, value 0}, speed on type 12 and
\* colour on type 2; each such note emits its value-0 event, its speed event
\* and its colour event; bombs, skipped notes and double-laser notes in
\* between do not change whose turn it is.
C3_SidesAlternate ==
    /\ \A k \in OffPositions : TurnKept(k)
    /\ (pc \in {"L324", "raise"} /\ SingleSide)
           => \E k \in OffPositions : k > ev_mark
    /\ (pc \in {"L201", "L222"} \/ (pc = "L324" /\ ~SingleSide))
           => \A k \in OffPositions : k <= ev_mark

\* C3 on the runs that do not raise: the same statement away from the
\* ZeroDivisionError of line 315.
C3_SidesAlternateUnlessRaised == pc # "raise" => C3_SidesAlternate

\* C3's case: two single-side notes with a bomb between them have emitted.
C3_Witness ==
    /\ pc = "L324"
    /\ i = 2
    /\ At(notes, 1).type = 3
    /\ Cardinality(OffPositions) = 2
    /\ \A k \in OffPositions : TurnKept(k)

\* The laser events of this iteration.
EmittedLasers == SelectSeq(Emitted, IsLaser)

\* C4: a processed non-bomb note fires both lasers exactly when a note
\* follows it at the same timestamp and its gap is >= 2: then it emits
\* {type 3, colour}, {type 2, colour}, {type 12, speed}, {type 13, speed} and
\* nothing single-sided; every other processed non-bomb note emits exactly
\* three laser events: one value-0 event, one speed event, one colour event.
C4_LaserEvents ==
    (pc \in {"L324", "raise"})
        => LET t == At(notes, i).time
               colour == IF SpecGap(i) < TicksPerBeat THEN 7 ELSE 3
               las == EmittedLasers
           IN  IF HasStackedSuccessor(i) /\ SpecGap(i) >= 2 * TicksPerBeat
               THEN las = <<Ev(t, 3, colour), Ev(t, 2, colour),
                            Ev(t, 12, calculate_laser_speed(SpecGap(i))),
                            Ev(t, 13, calculate_laser_speed(SpecGap(i)))>>
               ELSE /\ Len(las) = 3
                    /\ las[1].type \in {2, 3} /\ las[1].value = 0
                    /\ las[2].type \in {12, 13}
                    /\ las[2].value = calculate_laser_speed(SpecGap(i))
                    /\ las[3].type \in {2, 3} /\ las[3].value = colour
                    /\ las[3].type # las[1].type
                    /\ (las[2].type = 12) <=> (las[3].type = 2)

\* C4 on the runs that do not raise.
C4_LaserEventsUnlessRaised == pc # "raise" => C4_LaserEvents

\* C4's case: a stacked note with a gap of two beats or more fired both lasers.
C4_Witness ==
    /\ pc = "L324"
    /\ HasStackedSuccessor(i)
    /\ SpecGap(i) >= 2 * TicksPerBeat
    /\ Len(EmittedLasers) = 4

\* The input of the end-to-end example: times 0, 0.5 and 3, type 0, cut 0.
C5_Notes ==
    <<[time |-> 0, type |-> 0, cutDirection |-> 0],
      [time |-> TicksPerBeat \div 2, type |-> 0, cutDirection |-> 0],
      [time |-> 3 * TicksPerBeat, type |-> 0, cutDirection |-> 0]>>

\* The example's gaps 0.5, 2.5 and 3, and its pace markers: a dense onset at
\* time 0 and a sparse onset at time 0.5, and no other.
C5_GapsAndPace ==
    /\ (pc = "L209" /\ i = 0) => padding = TicksPerBeat \div 2
    /\ (pc = "L209" /\ i = 1) => padding = (5 * TicksPerBeat) \div 2
    /\ (pc = "L209" /\ i = 2) => padding = 3 * TicksPerBeat
    /\ (pc = "L366")
           => /\ SelectSeq(events, LAMBDA e : e.type = 9)
                    = <<Ev(0, 9, 0), Ev(TicksPerBeat \div 2, 9, 0)>>
              /\ pace_changes = <<PaceEntry("b", 0), PaceEntry("0", TicksPerBeat \div 2)>>

\* C5 as stated: for the notes at 0, 0.5 and 3 the gaps are 0.5, 2.5 and 3,
\* the pace markers mark dense at 0 and sparse at 0.5, and the ring events
\* (type 1) stand at the whole beats 1 and 2.
C5_RingsAtBeats1And2 ==
    (notes = C5_Notes)
        => /\ C5_GapsAndPace
           /\ (pc = "L366")
                  => LET rings == SelectSeq(events, LAMBDA e : e.type = 1)
                     IN  /\ Len(rings) = 2
                         /\ rings[1].time = 1 * TicksPerBeat
                         /\ rings[2].time = 2 * TicksPerBeat

\* C5 amended: for the notes at 0, 0.5 and 3 the gaps are 0.5, 2.5 and 3, the
\* pace markers mark dense at 0 and sparse at 0.5, and the post-processing
\* pass emits exactly one ring event, {time 0, type 1, value 7}, for the dense
\* section [0, 0.5); the sparse section from 0.5 on gets none.
C5_OneRingAtBeat0 ==
    (notes = C5_Notes)
        => /\ C5_GapsAndPace
           /\ (pc = "L366") => SelectSeq(events, LAMBDA e : e.type = 1) = <<Ev(0, 1, 7)>>

\* C5's case: add_lighting_events has returned on the example's input.
C5_Witness == notes = C5_Notes /\ pc = "L366" /\ Len(pace_changes) = 2 /\ Len(events) = 18

\* The gap of a call is the rational q (a pair numerator, denominator).
GapIs(g, num, den) == g[1] * den = num * g[2]

\* C6 as stated: calculate_laser_speed returns 4 for gap 1, 2 for gap 2 and
\* 7 for gap 0.5.
C6_Speeds427 ==
    (call.at \in {"b", "done"})
        => /\ GapIs(call.a, 1, 1) => call.ra = 4
           /\ GapIs(call.a, 2, 1) => call.ra = 2
           /\ GapIs(call.a, 1, 2) => call.ra = 7

\* C6 amended: calculate_laser_speed, which is ceil((ceil(2/gap + 1))^2 / 4),
\* returns 3 for gap 1, 1 for gap 2 and 7 for gap 0.5.
C6_Speeds317 ==
    (call.at \in {"b", "done"})
        => /\ GapIs(call.a, 1, 1) => call.ra = 3
           /\ GapIs(call.a, 2, 1) => call.ra = 1
           /\ GapIs(call.a, 1, 2) => call.ra = 7

\* C6's case: the function was called on gap 1 and has returned 3.
C6_Witness == call.at = "done" /\ call.a = <<1, 1>> /\ call.ra = 3

\* C7: calculate_laser_speed is non-increasing in the gap, over the positive
\* rational gaps num / den with num <= MaxNum and den <= MaxDenom, and its
\* result is at least 1.
C7_SpeedMonotone ==
    /\ (call.at \in {"b", "done"}) => call.ra >= 1
    /\ (call.at = "done")
           => /\ call.rb >= 1
              /\ (call.a[1] * call.b[2] <= call.b[1] * call.a[2]) => call.ra >= call.rb

\* C7's case: two different gaps, the smaller with the strictly larger speed.
C7_Witness ==
    /\ call.at = "done"
    /\ call.a[1] * call.b[2] < call.b[1] * call.a[2]
    /\ call.ra > call.rb
    /\ call.rb = 1

\* How many events of events are {time t, type 8, value 0}.
RingTriggersAt(t) == Cardinality({k \in 1..Len(events) : events[k] = Ev(t, 8, 0)})

\* The number of notes at time t.
NotesAt(t) == Cardinality({k \in 1..Len(notes) : notes[k].time = t})

\* C9: once the notes are walked, every maximal run of k >= 2 consecutive
\* notes at one timestamp has exactly one {type 8, value 0} event at that
\* timestamp, whatever k is, and a note without a same-time neighbour has
\* none (in a list ordered by time a run is all the notes of one timestamp).
C9_OneTriggerPerRun ==
    (pc \in {"L327", "L366"} /\ IsSorted(notes))
        => \A t \in 0..MaxTime : RingTriggersAt(t) = (IF NotesAt(t) >= 2 THEN 1 ELSE 0)

\* What the code does instead: one trigger for every note that has a note
\* right after it at the same timestamp, k - 1 for a run of k.
C9_TriggerPerStackedNote ==
    (pc \in {"L327", "L366"} /\ IsSorted(notes))
        => \A t \in 0..MaxTime : RingTriggersAt(t) = (IF NotesAt(t) >= 2 THEN NotesAt(t) - 1 ELSE 0)

\* C8: over note lists ordered by non-decreasing, non-negative time, no note
\* reaches calculate_laser_speed with a gap of 0: every note that goes on to
\* the laser step has a strictly positive gap, and the division never fails.
C8_NoZeroGap ==
    (IsSorted(notes) /\ \A k \in 1..Len(notes) : notes[k].time >= 0)
        => /\ pc # "raise"
           /\ (pc = "L209" /\ ~IsBomb(At(notes, i))) => padding > 0

\* C10: the gap used for a processed note i is the time of the first later
\* note at a different time minus the time of note i, and the time of note i
\* itself when no later note differs.
C10_GapOfNote == pc = "L209" => padding = SpecGap(i)

\* C10's case: a note kept by the skip whose look-ahead passed a stacked
\* note and found a later note at another time.
C10_Witness ==
    /\ pc = "L209"
    /\ HasStackedSuccessor(i)
    /\ LaterDistinct(i) # {}
    /\ padding > 0

\* C10's other case: the last note, whose gap is its own time.
C10_TailWitness == pc = "L209" /\ i = Len(notes) - 1 /\ i > 0 /\ padding = At(notes, i).time

\* ------------------------------------------------------------------------
\* The ring pass (lines 326-364).

\* The time a log entry records: the time whose text follows the prefix.
LogTime(entry) == CHOOSE t \in 0..MaxTime : FormatTime(t) = Tail(entry)

\* The whole beats b with T <= b < N, times in ticks.
BeatsBetween(T, N) == {b \in 0..MaxTime : T <= b * TicksPerBeat /\ b * TicksPerBeat < N}

\* The ring-spin events C11 names for an entry at T followed by one at N:
\* one at T itself when T is no whole beat, then one for every whole beat t
\* with ceil(T) <= t < ceil(N), in rising order.
RingSpins(T, N, v) ==
    LET beats == BeatsBetween(T, N)
        nth(k) == CHOOSE b \in beats : Cardinality({c \in beats : c < b}) = k - 1
    IN  (IF T % TicksPerBeat # 0 THEN <<Ev(T, 1, v)>> ELSE <<>>)
        \o [k \in 1..Cardinality(beats) |-> Ev(nth(k) * TicksPerBeat, 1, v)]

\* C11: in the ring pass, an entry other than the last with prefix "a" or
\* "b", at time T and followed by an entry at time N, produces exactly the
\* type 1 events at T itself when T is no whole beat and then at every whole
\* beat t with ceil(T) <= t < ceil(N), all of value 3 for "a" and 7 for "b";
\* an entry with prefix "0" produces no event.
C11_RingSpins ==
    (pc = "L327" /\ i >= 1)
        => LET entry == At(pace_changes, i - 1)
           IN  /\ (Head(entry) \in {"a", "b"} /\ i < Len(pace_changes))
                      => Emitted = RingSpins(LogTime(entry), LogTime(At(pace_changes, i)),
                                             IF Head(entry) = "a" THEN 3 ELSE 7)
               /\ Head(entry) = "0" => Emitted = <<>>

\* C11's case: a "b" entry at a time that is no whole beat, followed by a
\* later entry, has produced its event at T and a sweep of whole beats.
C11_Witness ==
    /\ pc = "L327"
    /\ i >= 1
    /\ i < Len(pace_changes)
    /\ Head(At(pace_changes, i - 1)) = "b"
    /\ LogTime(At(pace_changes, i - 1)) % TicksPerBeat # 0
    /\ Len(Emitted) >= 3

\* C11's other case: an entry with prefix "0" that is not the last.
C11_ZeroWitness ==
    /\ pc = "L327"
    /\ i >= 1
    /\ i < Len(pace_changes)
    /\ Head(At(pace_changes, i - 1)) = "0"

\* ------------------------------------------------------------------------
\* Density classification (lines 223-255).

\* Note idx went (or goes) through the laser step: it is no bomb and no
\* earlier note that is no bomb stands at its timestamp.
TakesLaserStep(idx) ==
    /\ At(notes, idx).type # 3
    /\ \A k \in 0..(idx - 1) : At(notes, k).time = At(notes, idx).time => At(notes, k).type = 3

\* The gap carried into the iteration of note idx: that of the latest earlier
\* note that went through the laser step, 0 when there is none (line 167).
PrevGap(idx) ==
    LET before == {k \in 0..(idx - 1) : TakesLaserStep(k)}
    IN  IF before = {} THEN 0
        ELSE SpecGap(CHOOSE k \in before : \A m \in before : m <= k)

\* The three cases in which C12 has a pace boundary emitted, for a note of
\* gap g after a previous gap p, first telling whether it is the first note.
PaceBoundaryDue(g, p, first) ==
    \/ g >= 2 * TicksPerBeat /\ (p < 2 * TicksPerBeat \/ first)
    \/ g >= TicksPerBeat /\ g < 2 * TicksPerBeat
           /\ (p < TicksPerBeat \/ p >= 2 * TicksPerBeat \/ first)
    \/ g < TicksPerBeat /\ (p >= TicksPerBeat \/ first)

\* The prefix C12 names for a gap: "0" sparse, "a" medium, "b" dense.
RegimePrefix(g) ==
    IF g >= 2 * TicksPerBeat THEN "0" ELSE IF g >= TicksPerBeat THEN "a" ELSE "b"

\* The type 9 events of the event list, in order.
PaceEvents == SelectSeq(events, LAMBDA e : e.type = 9)

\* C12, the step: when a note that is neither a bomb nor an any-direction
\* block is classified, one {type 9, value 0} event at its time is emitted
\* and one entry, prefix then time, is appended to the log exactly when the
\* note is sparse and the previous gap is below 2 or it is the first note,
\* medium and the previous gap is below 1 or at least 2 or it is the first
\* note, dense and the previous gap is at least 1 or it is the first note;
\* otherwise no type 9 event is emitted and the log is left as it is.
C12_StepEmitsBoundary ==
    (pc = "L209" /\ At(notes, i).cutDirection # 8 /\ At(notes, i).type # 3)
        => LET t == At(notes, i).time
               new == SubSeq(events', Len(events) + 1, Len(events'))
               nines == SelectSeq(new, LAMBDA e : e.type = 9)
           IN  IF PaceBoundaryDue(SpecGap(i), PrevGap(i), i = 0)
               THEN /\ nines = <<Ev(t, 9, 0)>>
                    /\ new[1] = Ev(t, 9, 0)
                    /\ pace_changes' = Append(pace_changes, <<RegimePrefix(SpecGap(i))>> \o FormatTime(t))
               ELSE /\ nines = <<>>
                    /\ pace_changes' = pace_changes

\* C12, the log: it has one entry per type 9 event, in the same order and
\* with the same times.
C12_LogMatchesEvents ==
    /\ Len(pace_changes) = Len(PaceEvents)
    /\ \A k \in 1..Len(pace_changes) :
           /\ PaceEvents[k] = Ev(LogTime(pace_changes[k]), 9, 0)
           /\ Head(pace_changes[k]) \in {"0", "a", "b"}

\* C12: a pace-boundary event and its log entry are produced exactly in the
\* three cases of a change of density (or at the first note), and the log
\* mirrors the type 9 events.
C12_PaceBoundary == [][C12_StepEmitsBoundary]_vars /\ []C12_LogMatchesEvents

\* C12's case: a medium note that is not the first one and follows a sparse
\* gap has emitted its pace boundary and logged it.
C12_Witness ==
    /\ pc = "L324"
    /\ i > 0
    /\ At(notes, i).cutDirection # 8
    /\ SpecGap(i) >= TicksPerBeat /\ SpecGap(i) < 2 * TicksPerBeat
    /\ PrevGap(i) >= 2 * TicksPerBeat
    /\ Emitted[1] = Ev(At(notes, i).time, 9, 0)
    /\ pace_changes[Len(pace_changes)] = PaceEntry("a", At(notes, i).time)
    /\ Len(pace_changes) = 2

\* C12's other case: a classified note whose density did not change.
C12_QuietWitness ==
    /\ pc = "L324"
    /\ i > 0
    /\ At(notes, i).cutDirection # 8
    /\ ~PaceBoundaryDue(SpecGap(i), PrevGap(i), FALSE)
    /\ Emitted[1].type = 4

\* ------------------------------------------------------------------------
\* The stacked skip (lines 199-201) and the timestamps.

\* The event types of the back-light, light, pace and laser steps.
StepTypes == {0, 4, 9, 2, 3, 12, 13}

\* The current iteration has appended an event of the steps' types.
Contributes == \E k \in 1..Len(Emitted) : Emitted[k].type \in StepTypes

\* An earlier note that is no bomb stands at the timestamp of note idx.
Shadowed(idx) ==
    \E k \in 0..(idx - 1) : At(notes, k).time = At(notes, idx).time /\ At(notes, k).type # 3

\* C19 as stated: at most one note per timestamp contributes back-light,
\* light, pace or laser events: when a note contributes events of types 0,
\* 4, 9, 2, 3, 12 or 13, no earlier iteration has left an event of these
\* types at the same time.
C19_OneNotePerTime ==
    (pc \in {"L201", "L222", "L324", "raise"} /\ Contributes)
        => \A k \in 1..ev_mark :
               ~(events[k].time = At(notes, i).time /\ events[k].type \in StepTypes)

\* C19 amended: a note is skipped, adding no event of types 0, 4, 9, 2, 3, 12
\* or 13, exactly when an earlier note that is no bomb stands at its
\* timestamp; a bomb leaves last_time alone, so the bombs that come first at
\* a timestamp each add their back-light pair and the first block after them
\* is still processed.  Only one note per timestamp adds pace or laser events.
C19_OneBlockPerTime ==
    /\ pc = "L201" => (Shadowed(i) /\ ~Contributes)
    /\ pc \in {"L209", "L222", "L324", "raise"} => ~Shadowed(i)
    /\ pc \in {"L222", "L324", "raise"} => Contributes
    /\ pc \in {"L324", "raise"}
           => \A k \in 1..ev_mark :
                  ~(events[k].time = At(notes, i).time /\ events[k].type \in {9, 2, 3, 12, 13})

\* C19's case: a block stacked on a processed block was skipped.
C19_Witness ==
    /\ pc = "L201"
    /\ At(notes, i).type # 3
    /\ At(notes, i - 1).time = At(notes, i).time
    /\ Len(events) > 4

\* C19's other case: a block that follows a bomb at the same timestamp went
\* through all the steps.
C19_AfterBombWitness ==
    /\ pc = "L324"
    /\ i > 0
    /\ At(notes, i - 1).type = 3
    /\ At(notes, i - 1).time = At(notes, i).time
    /\ Contributes

\* ------------------------------------------------------------------------
\* The prefixes of the pace-change log.

\* C20 as stated: two consecutive entries of the pace-change log never
\* carry the same prefix.
C20_PrefixesDiffer ==
    \A k \in 1..(Len(pace_changes) - 1) : Head(pace_changes[k]) # Head(pace_changes[k + 1])

\* An any-direction block that is no bomb stands strictly between the times
\* T and N with a gap of another density than the prefix names.
OmniBetween(T, N, prefix) ==
    \E j \in 0..(Len(notes) - 1) :
        /\ At(notes, j).cutDirection = 8
        /\ At(notes, j).type # 3
        /\ T < At(notes, j).time
        /\ At(notes, j).time < N
        /\ RegimePrefix(SpecGap(j)) # prefix

\* C20 amended: a pace boundary is logged only when the density of the note
\* differs from that of the gap carried in last_padding (or at index 0), and
\* last_padding is also set by any-direction blocks, which log nothing: two
\* consecutive entries carry the same prefix only when an any-direction
\* block that is no bomb, with a gap of another density, stands between
\* their times; without one, consecutive prefixes differ.
C20_PrefixesDifferUnlessOmni ==
    \A k \in 1..(Len(pace_changes) - 1) :
        Head(pace_changes[k]) = Head(pace_changes[k + 1])
            => OmniBetween(LogTime(pace_changes[k]), LogTime(pace_changes[k + 1]),
                           Head(pace_changes[k]))

\* C20's case: two classified notes of different density logged one entry
\* each, with different prefixes.
C20_Witness ==
    /\ pc = "L324"
    /\ Len(pace_changes) = 2
    /\ Head(pace_changes[1]) = "b"
    /\ Head(pace_changes[2]) = "a"
    /\ \A k \in 1..Len(notes) : notes[k].cutDirection # 8

\* C20's other case: the same prefix twice, around an any-direction block.
C20_RepeatWitness ==
    /\ pc = "L324"
    /\ Len(pace_changes) = 2
    /\ Head(pace_changes[1]) = Head(pace_changes[2])

\* ------------------------------------------------------------------------
\* The rewrite of a level file (create_light_map) and the lighting step.

\* The document create_light_map has to leave under the name f: the one it
\* read, with the events add_lighting_events returned for it in this run.
IsNewDoc(d, f) ==
    \E r \in returned :
        /\ r.pass = pass
        /\ r.file = f
        /\ d = [orig[f].doc EXCEPT !.events = r.events]

\* C13: whatever step the process is killed at, every file of the directory
\* holds under its own name a complete document: the original one as long
\* as the rename has not taken place, the new one once it has; no empty or
\* partial file is ever seen under the original name.
C13_AtomicRewrite ==
    \A f \in Extracted :
        /\ disk[f].part = "full"
        /\ IF f \in rewritten THEN IsNewDoc(disk[f].doc, f) ELSE disk[f] = orig[f]

\* C13's case: killed while the temporary file was partly written.
C13_Witness ==
    /\ pc = "killed"
    /\ \E f \in LevelFiles :
           /\ disk[WithSuffix(f, ".dat.tmp")].part = "partial"
           /\ disk[f] = orig[f]
           /\ f \notin rewritten

\* C13's other case: killed after the rename, the new document in place.
C13_RenamedWitness ==
    /\ pc = "killed"
    /\ \E f \in LevelFiles :
           /\ f \in rewritten
           /\ disk[f] # orig[f]
           /\ disk[WithSuffix(f, ".dat.tmp")] = NoFile

\* The call of create_light_map for f is over.
CallOver(f) == calls[f] > 0 /\ pc \in {"L647", "L654"}

\* C14: a document without version marker or without note list makes
\* create_light_map fail without a call of add_lighting_events; and every
\* failure of create_light_map, whatever its cause, reaches the caller (line
\* 651) with the file under the original name holding its original content.
C14_FailureKeepsOriginal ==
    /\ \A f \in LevelFiles :
           (~orig[f].doc.has_version \/ ~orig[f].doc.has_notes)
               => /\ f \notin synth_calls
                  /\ f \notin rewritten
                  /\ CallOver(f) => f \in reported
    /\ pc \in {"L400", "L651"} => (disk[filename] = orig[filename] /\ filename \notin rewritten)
    /\ \A f \in reported : disk[f] = orig[f] /\ f \notin rewritten
    /\ \A f \in LevelFiles : CallOver(f) => (f \in reported \/ f \in rewritten)

\* C14's case: a document with a note list and no version marker has made
\* create_light_map raise, the synthesizer not called.
C14_Witness ==
    /\ pc = "L651"
    /\ orig[filename].doc.parses
    /\ orig[filename].doc.has_notes
    /\ ~orig[filename].doc.has_version
    /\ filename \notin synth_calls

\* C14's other cases: a failure while synthesizing, and while writing.
C14_SynthFailureWitness ==
    /\ pc = "L651"
    /\ filename \in synth_calls
    /\ disk[TempFile] = NoFile
    /\ notes = NoteAtZero

C14_WriteFailureWitness == pc = "L651" /\ disk[TempFile].part = "partial"

\* C15: in the lighting step create_light_map gets every extracted .dat file
\* other than Info.dat exactly once, whatever failed before, and never
\* Info.dat (nor a file that is no .dat file); Info.dat is not modified.
C15_EveryLevelOnce ==
    /\ \A p \in Paths : calls[p] <= 1
    /\ \A p \in Paths : (p = InfoDat \/ p.suffix # ".dat") => calls[p] = 0
    /\ disk[InfoDat] = orig[InfoDat]
    /\ disk[WithSuffix(InfoDat, ".dat.tmp")] = NoFile
    /\ pc = "L654" => \A f \in Extracted : (f.suffix = ".dat" /\ f # InfoDat) => calls[f] = 1

\* C15's case: the step is over, a file failed and another was rewritten
\* after it.
C15_Witness ==
    /\ pc = "L654"
    /\ pass = 1
    /\ \E f, g \in LevelFiles :
           /\ f \in reported
           /\ g \in rewritten
           /\ disk[g] # orig[g]
    /\ \A f \in LevelFiles : calls[f] = 1

\* C16: the event list add_lighting_events returns depends on the note list
\* alone: two calls on the same notes return the same events, whatever
\* events the document held before (none, those of another tool, its own
\* output), whatever documents were processed in between; the notes are
\* returned as they were read.
C16_EventsFromNotesOnly ==
    /\ \A r1, r2 \in returned : r1.notes = r2.notes => r1.events = r2.events
    /\ \A r \in returned : r.pass = pass => r.notes = orig[r.file].doc.notes

\* C16's case: a level file was processed again on its own output, after
\* another document, and the second call has returned.
C16_Witness ==
    \E r1, r2 \in returned :
        /\ r1.pass = 1
        /\ r2.pass = 2
        /\ r1.file = r2.file
        /\ r1.events # <<>>
        /\ orig[r2.file].doc.events = r1.events
        /\ \E r3 \in returned : r3.pass = 2 /\ r3.file # r2.file /\ r3.notes # r2.notes

\* ------------------------------------------------------------------------
\* The script's answer to a failing audio file, and the polling.

\* The text is among the lines printed to the stream.
Printed(stream, text) == \E k \in 1..Len(stream) : stream[k] = text

\* C17 as stated: when the processing of an audio file has failed (get_map
\* raised its RuntimeError), the error message is printed to stderr and the
\* script exits with code 1.
C17_FailureExitsOne ==
    (pc = "exit" /\ failures # <<>>)
        => /\ exit_code = 1
           /\ \A k \in 1..Len(failures) : Printed(stderr, <<"Error">> \o failures[k].msg)

\* What the code does with a failing audio file: the message goes to stdout
\* as a warning, stderr stays empty, the loop takes the next file, and the
\* script ends with exit status 0 unless line 563 ends it.
C17_FailureIsWarned ==
    /\ \A k \in 1..Len(failures) :
           (k < Len(failures) \/ pc # "L907")
               => Printed(stdout, <<"Error processing">> \o failures[k].msg)
    /\ failures # <<>> => stderr = <<>>
    /\ (pc = "exit" /\ exit_code = 1)
           => \/ stderr # <<>>
              \/ Printed(stdout, <<"Patreon features required but not available">>)

\* C17's case: one audio file failed at its first heartbeat, and the script
\* has ended with exit status 0 and nothing on stderr.
C17_Witness ==
    /\ pc = "exit"
    /\ exit_code = 0
    /\ Len(failures) = 1
    /\ heartbeats = <<"request_failed">>
    /\ stderr = <<>>

\* get_map has raised out of its polling loop.
PollingFailed == pc = "L907" /\ heartbeats # <<>> /\ downloads = 0

\* C18 as stated: a failed heartbeat request is retried, and the file fails
\* only once the attempts are used up: when get_map fails on a heartbeat
\* request that failed, max_attempts requests have been made.
C18_FailedHeartbeatRetried ==
    (PollingFailed /\ heartbeats[Len(heartbeats)] = "request_failed")
        => Len(heartbeats) >= max_attempts

\* C18 amended: only a heartbeat whose answer carries a status other than
\* DONE and ERROR is followed by another attempt, max_attempts attempts at
\* most.  A heartbeat request that fails, or whose answer is no JSON, is not
\* retried: get_map raises at once ("Network error occurred", "Invalid JSON
\* response"), as it does for the status ERROR; after max_attempts answers
\* without a final status it raises "Map generation timed out".
C18_FailedHeartbeatFailsFile ==
    LET n == Len(heartbeats)
    IN  /\ n <= max_attempts
        /\ \A k \in 1..(n - 1) : heartbeats[k] = "PENDING"
        /\ attempt = Cardinality({k \in 1..n : heartbeats[k] = "PENDING"})
        /\ PollingFailed
               => \/ /\ heartbeats[n] = "request_failed"
                     /\ error = Exc("RuntimeError", <<"Network error occurred", "heartbeat">>)
                  \/ /\ heartbeats[n] = "bad_json"
                     /\ error = Exc("RuntimeError", <<"Invalid JSON response", "heartbeat">>)
                  \/ /\ heartbeats[n] = "ERROR"
                     /\ error = Exc("RuntimeError", <<"Unexpected error", "Map generation failed">>)
                  \/ /\ heartbeats[n] = "PENDING"
                     /\ n = max_attempts
                     /\ error = Exc("RuntimeError", <<"Unexpected error", "Map generation timed out">>)

\* C18's case: the third heartbeat request failed, after two answers without
\* a final status, and the file has failed with a network error.
C18_Witness ==
    /\ PollingFailed
    /\ heartbeats = <<"PENDING", "PENDING", "request_failed">>
    /\ error.msg[1] = "Network error occurred"

\* C18's other case: the attempts are used up.
C18_TimedOutWitness ==
    /\ PollingFailed
    /\ Len(heartbeats) = max_attempts
    /\ error.msg[2] = "Map generation timed out"

\* ------------------------------------------------------------------------
\* The classified light event and the laser colour (lines 223-270).

\* The light value C21 names for a gap.
LightValueOfGap(g) == IF g >= 2 * TicksPerBeat THEN 3 ELSE IF g >= TicksPerBeat THEN 2 ELSE 6

\* The laser colour C21 names for a gap.
ColourOfGap(g) == IF g < TicksPerBeat THEN 7 ELSE 3

\* The positions of the current iteration's events of type ty.
EmittedOfType(ty) == {k \in 1..Len(Emitted) : Emitted[k].type = ty}

\* The laser-colour events of the current iteration: those on the laser
\* channels 2 and 3 that switch a laser on.
ColourPositions == {k \in 1..Len(Emitted) : Emitted[k].type \in {2, 3} /\ Emitted[k].value # 0}

\* C21: a processed note that is neither a bomb nor an any-direction block
\* emits one light event {type 4, value v} with the event {type 0, value 0}
\* right after it, v = 3 for a gap >= 2, 2 for 1 <= gap < 2 and 6 for a gap
\* < 1; and every laser-colour event of a processed note has value 7 when
\* the note's gap is < 1 and 3 otherwise.
C21_LightAndColour ==
    LET t == At(notes, i).time
    IN  /\ (pc \in {"L324", "raise"} /\ At(notes, i).cutDirection # 8)
               => /\ Cardinality(EmittedOfType(4)) = 1
                  /\ \A k \in EmittedOfType(4) :
                         /\ Emitted[k] = Ev(t, 4, LightValueOfGap(SpecGap(i)))
                         /\ k < Len(Emitted)
                         /\ Emitted[k + 1] = Ev(t, 0, 0)
        /\ pc \in {"L222", "L324", "raise"}
               => \A k \in ColourPositions : Emitted[k].value = ColourOfGap(SpecGap(i))
        /\ pc = "L324" => ColourPositions # {}

\* C21's case: a dense block got its light event of value 6, the reset of
\* channel 0 and a laser colour of 7.
C21_Witness ==
    /\ pc = "L324"
    /\ At(notes, i).cutDirection # 8
    /\ i > 0
    /\ SpecGap(i) < TicksPerBeat
    /\ \E k \in EmittedOfType(4) : Emitted[k].value = 6 /\ Emitted[k + 1] = Ev(At(notes, i).time, 0, 0)
    /\ \E k \in ColourPositions : Emitted[k].value = 7

\* C21's other case: a sparse block with both lasers, light value 3.
C21_SparseWitness ==
    /\ pc = "L324"
    /\ At(notes, i).cutDirection # 8
    /\ SpecGap(i) >= 2 * TicksPerBeat
    /\ Cardinality(ColourPositions) = 2
    /\ \E k \in EmittedOfType(4) : Emitted[k].value = 3

\* ------------------------------------------------------------------------
\* The end of the polling loop (lines 584-610).

\* Every step of the script is taken in the end: the interpreter goes on,
\* and a request of get_map is answered or raises.
ScriptFairSpec == ScriptSpec /\ WF_vars(ScriptNext)

\* The polling loop of this file has been left.
PollingOver == heartbeats # <<>> /\ pc # "L588"

\* All the heartbeats so far were answered with a status that is not final.
AllPending == \A k \in 1..Len(heartbeats) : heartbeats[k] = "PENDING"

C22_Outcome ==
    LET n == Len(heartbeats)
        last == heartbeats[n]
    IN  /\ n <= max_attempts
        /\ downloads <= 1
        /\ downloads > 0 => (n > 0 /\ last = "DONE")
        /\ pc = "L608" => (n > 0 /\ last = "DONE" /\ downloads = 0)
        /\ (PollingOver /\ pc = "L659" /\ downloads = 0)
               => \/ last = "ERROR" /\ error = Exc("RuntimeError", <<"Map generation failed">>)
                  \/ /\ last = "PENDING"
                     /\ n = max_attempts
                     /\ AllPending
                     /\ error = Exc("RuntimeError", <<"Map generation timed out">>)
                  \/ last = "request_failed" /\ error = Exc("RequestException", <<"heartbeat">>)
                  \/ last = "bad_json" /\ error = Exc("JSONDecodeError", <<"heartbeat">>)
        /\ PollingOver => (last # "PENDING" \/ n = max_attempts)

C22_FailedWitness ==
    /\ PollingOver
    /\ pc = "L659"
    /\ heartbeats = <<"PENDING", "request_failed">>

\* ------------------------------------------------------------------------
\* What add_lighting_events changes of the document (lines 166-173, 366).

\* The process is inside add_lighting_events.
InCall == pc \in {"L167", "L173", "L201", "L209", "L222", "L324", "L327", "L366"}

\* s is the beginning of t.
IsPrefix(s, t) == Len(s) <= Len(t) /\ SubSeq(t, 1, Len(s)) = s

\* One step of the call (not the kill of the process): the note list stays as it is; the first step
\* empties the event list and every later one only appends to it; the
\* document of the caller is touched by the return alone, which changes its
\* event list and no other field.
C23_Step ==
    (InCall /\ pc' # "killed")
        => /\ notes' = notes
           /\ pc = "L167" => events' = <<>>
           /\ pc # "L167" => IsPrefix(events, events')
           /\ pc # "L366" => beatmap' = beatmap
           /\ pc = "L366"
                  => /\ beatmap'.notes = beatmap.notes
                     /\ beatmap'.parses = beatmap.parses
                     /\ beatmap'.has_version = beatmap.has_version
                     /\ beatmap'.has_notes = beatmap.has_notes

\* The document add_lighting_events has handed back: the one that was
\* loaded, but for its event list, in which no event of the loaded document
\* (type 5, which the synthesizer never emits) is left.
C23_Returned ==
    pc = "L394"
        => /\ beatmap = [orig[filename].doc EXCEPT !.events = events]
           /\ beatmap.notes = notes
           /\ \A k \in 1..Len(events) : events[k].type # 5

\* C23: add_lighting_events changes the event list of the document and
\* nothing else: the note list and every other field are as they were, and
\* every event the document held before the call is gone, the event list
\* holding only what the call has appended.
C23_OnlyEventsChange == [][C23_Step]_vars /\ []C23_Returned

\* C23's case: the call has returned for a document that came with events
\* of an earlier run, and the event list is new.
C23_Witness ==
    /\ pc = "L394"
    /\ orig[filename].doc.events = <<Ev(0, 5, 1)>>
    /\ events # <<>>
    /\ beatmap.events = events

\* ------------------------------------------------------------------------
\* The pace boundary of the first classified note (lines 166-170, 209-255).

\* Note idx goes through the density classification of lines 223-252: it
\* is no bomb and no any-direction block, and the stacked-note skip of line
\* 200 lets it through.
Classified(idx) == TakesLaserStep(idx) /\ At(notes, idx).cutDirection # 8

\* Note idx is the first of the list to be classified.
FirstClassified(idx) == Classified(idx) /\ \A k \in 0..(idx - 1) : ~Classified(k)

\* C24: when the first note of the list that goes through the density
\* classification has been handled, a pace boundary {type 9, value 0} at
\* its time is among the events of its iteration and the log holds its
\* entry, whatever bombs or any-direction blocks come before it.
C24_FirstClassifiedFires ==
    (pc \in {"L324", "raise"} /\ FirstClassified(i))
        => /\ \E k \in 1..Len(Emitted) : Emitted[k] = Ev(At(notes, i).time, 9, 0)
           /\ Len(pace_changes) = 1
           /\ pace_changes[1] = PaceEntry(RegimePrefix(SpecGap(i)), At(notes, i).time)

\* What the code does for the first classified note: the boundary is there
\* when the note is the first of the list, or sparse or medium after bombs
\* alone; a dense one after a bomb, and one that continues the regime of an
\* any-direction block before it, leaves no boundary and no entry.
C24_FirstOfListFires ==
    (pc \in {"L324", "raise"} /\ FirstClassified(i))
        => IF PaceBoundaryDue(SpecGap(i), PrevGap(i), i = 0)
           THEN /\ \E k \in 1..Len(Emitted) : Emitted[k] = Ev(At(notes, i).time, 9, 0)
                /\ pace_changes = <<PaceEntry(RegimePrefix(SpecGap(i)), At(notes, i).time)>>
           ELSE /\ \A k \in 1..Len(Emitted) : Emitted[k].type # 9
                /\ pace_changes = <<>>

\* C24's failing case: a dense block after a bomb has been handled as the
\* first classified note, and the log is empty.
C24_Witness ==
    /\ pc = "L324"
    /\ i = 1
    /\ At(notes, 0).type = 3
    /\ FirstClassified(1)
    /\ SpecGap(1) < TicksPerBeat
    /\ pace_changes = <<>>

\* ------------------------------------------------------------------------
\* Where the ring events lie (lines 326-364).

\* The positions of the type 1 events in the event list.
RingPositions == {k \in 1..Len(events) : events[k].type = 1}

\* Event e lies in the window of the log entry at index idx: the entry is
\* not the last, e has the value of its prefix, 3 for "a" and 7 for "b",
\* and a time from the entry's on and before the next entry's.
InWindow(e, idx) ==
    /\ idx + 1 < Len(pace_changes)
    /\ Head(At(pace_changes, idx)) \in {"a", "b"}
    /\ e.value = (IF Head(At(pace_changes, idx)) = "a" THEN 3 ELSE 7)
    /\ LogTime(At(pace_changes, idx)) <= e.time
    /\ e.time < LogTime(At(pace_changes, idx + 1))

\* C25: for a note list in time order, every type 1 event has value 3 or 7
\* and a time t with T <= t < N, T the time of the log entry that produced
\* it and N that of the next entry; so no type 1 event lies at or after the
\* time of the last entry, and a log of fewer than two entries gives none.
C25_RingWindow ==
    /\ \A k \in RingPositions :
           /\ events[k].value \in {3, 7}
           /\ \E idx \in 0..(Len(pace_changes) - 2) : InWindow(events[k], idx)
           /\ events[k].time < LogTime(At(pace_changes, Len(pace_changes) - 1))
    /\ (pc = "L327" /\ i >= 1)
           => \A k \in 1..Len(Emitted) : Emitted[k].type = 1 /\ InWindow(Emitted[k], i - 1)
    /\ Len(pace_changes) < 2 => RingPositions = {}

\* C25's case: the ring pass is over and has left events of both values,
\* one of them at a time that is no whole beat.
C25_Witness ==
    /\ pc = "L366"
    /\ \E k \in RingPositions : events[k].value = 3
    /\ \E k \in RingPositions : events[k].value = 7 /\ events[k].time % TicksPerBeat # 0

\* C25's other case: the ring pass is over a log of one entry, no ring event.
C25_OneEntryWitness ==
    /\ pc = "L366"
    /\ Len(pace_changes) = 1
    /\ Head(pace_changes[1]) = "b"
    /\ RingPositions = {}

\* ------------------------------------------------------------------------
\* Validation and mapping of the options (lines 841-865, 884-889).

\* C26: the options validate_args accepts are the ones process_files maps
\* to canonical names: validation and mapping accept the same tokens,
\* tokens with blanks around them included, so no accepted command line
\* makes the mapping raise.
C26_ValidatedOptionsMap ==
    /\ pc \notin {"L912", "L920"}
           => ((ValidateError(args) = NoExc) <=> (MapError(args) = NoExc))
    /\ pc = "L885" => MapError(args) = NoExc
    /\ error.type # "KeyError"

\* The canonical names of the tokens of s, stripped and lower-cased.
MapTokensStripped(s, dict) ==
    Join([k \in 1..Len(Split(s)) |-> dict[Lower(Strip(Split(s)[k]))]])

\* Every token of the option string s is a key as it stands.
ExactTokens(s) == \A k \in 1..Len(Split(s)) : Lower(Strip(Split(s)[k])) = Split(s)[k]

\* What the code does: the mapping accepts the command lines validation
\* accepts whose tokens are lower-case and without blanks around them, and
\* gives the canonical names for these; any other accepted command line
\* ends the script on a KeyError, exit status 1.
C26_ExactOptionsMap ==
    /\ (MapError(args) = NoExc)
           <=> /\ ValidateError(args) = NoExc
               /\ ExactTokens(args.difficulties)
               /\ ExactTokens(args.modes)
               /\ ExactTokens(args.events)
    /\ pc = "L891"
           => /\ mapped.diffs = MapTokensStripped(args.difficulties, difficulties)
              /\ mapped.modes = MapTokensStripped(args.modes, modes)
              /\ mapped.events = MapTokensStripped(args.events, options_events)
    /\ error.type = "KeyError" => (ValidateError(args) = NoExc /\ pc \in {"L934", "exit"})
    /\ (pc = "exit" /\ error # NoExc) => exit_code = 1

\* C26's failing case: "exp, exp" (a blank after the comma) has passed
\* validation and the mapping has raised KeyError.
C26_Witness ==
    /\ pc = "exit"
    /\ args.difficulties = <<"e", "x", "p", ",", " ", "e", "x", "p">>
    /\ error.type = "KeyError"
    /\ exit_code = 1

\* C26's working case: two exact tokens mapped to their canonical names.
C26_MappedWitness ==
    /\ pc = "L891"
    /\ mapped.diffs = <<"Expert", ",", "Hard">>
    /\ mapped.env = "KDAEnvironment"

====
